---- MODULE Spec2Model ----
(***************************************************************************)
(* pz80: a two-pass Z80 assembler (asm.py, evaluator.py, directives.py)    *)
(* and a linear-sweep disassembler (disasm.py).                            *)
(*                                                                         *)
(* Conventions of the model                                                *)
(*  - a token is a string; a token list is a sequence of strings;          *)
(*  - positions in token lists are 1-based here (Python index + 1);        *)
(*    byte offsets inside an opcode ("offset" of a fixup) stay 0-based, as *)
(*    in the source, and are used as opcode[offset + 1];                   *)
(*  - a raised ValueError is an error kind (a string); "" is no error;     *)
(*  - Python's None is the string "None" where a value may be absent.      *)
(***************************************************************************)
EXTENDS Integers, Sequences, FiniteSets, TLC

VARIABLES
    pc,             \* position of assemble_lines: "off", "src", "pass0", "equ", "pass1", "done", "error"
    src,            \* Asm.source() output: sequence of [line, asm]
    asm,            \* the assemble list (pass0 result, updated in place by equ/pass1/pass2)
    labelmap,       \* Asm.labelmap
    label2address,  \* Asm.label2address
    err,            \* kind of the ValueError that ended the run, "" if none
    errpass,        \* the pass that raised it, "" if none
    prior,          \* how the previous assemble_lines call on this instance ended:
                    \* "" (there was none), "done", or the pass that raised
    binfile,        \* command_asm: the -s argument and the bytes of the output file
    dpc,            \* position of Disasm.exec: "off", "call", "sweep", "done"
    start,          \* Disasm.exec argument: start address
    images,         \* Disasm.exec argument: the input bytes
    datamap,        \* Disasm.datamap: sequence of <<lo, hi>>
    adr,            \* Disasm.exec loop variable
    lst             \* Disasm.exec result list

vars == <<pc, src, asm, labelmap, label2address, err, errpass, prior, binfile,
          dpc, start, images, datamap, adr, lst>>
asmvars == <<pc, src, asm, labelmap, label2address, err, errpass, prior, binfile>>
disvars == <<dpc, start, images, datamap, adr, lst>>

(***************************************************************************)
(* Bounds of the model                                                     *)
(***************************************************************************)
MaxLines == 4
MaxImage == 4

(***************************************************************************)
(* Lexical layer: what int(token, 0), str.lower(), ast.literal_eval and    *)
(* the label regular expression do on the tokens of the model's            *)
(* vocabulary.                                                             *)
(***************************************************************************)
NumTable ==
    { <<"0", 0>>, <<"1", 1>>, <<"2", 2>>, <<"3", 3>>, <<"5", 5>>, <<"10", 10>>,
      <<"0x10", 16>>, <<"100", 100>>, <<"127", 127>>, <<"128", 128>>,
      <<"129", 129>>, <<"200", 200>>, <<"255", 255>>, <<"256", 256>>,
      <<"300", 300>>, <<"0x0000", 0>>, <<"0x100", 256>>, <<"0x0100", 256>>, <<"0x17E", 382>>,
      <<"0x17F", 383>>, <<"0x181", 385>>, <<"0x182", 386>>, <<"0x200", 512>>,
      <<"0x1000", 4096>>, <<"0x1234", 4660>>, <<"0x8000", 32768>>,
      <<"32768", 32768>>, <<"32769", 32769>>, <<"0xFFFE", 65534>>,
      <<"0xFFFF", 65535>>, <<"65534", 65534>>, <<"65535", 65535>>,
      <<"65536", 65536>>, <<"70000", 70000>> }

IsInt(tok) == \E p \in NumTable : p[1] = tok
IntOf(tok) == (CHOOSE p \in NumTable : p[1] = tok)[2]

\* quoted tokens of the vocabulary and the characters' code points
StrTable ==
    { <<"'A'", <<65>> >>, <<"'AB'", <<65, 66>> >>, <<"\"ABC\"", <<65, 66, 67>> >>,
      <<"''", << >> >>, <<"\"\\u3042\"", <<12354>> >> }

IsStr(tok) == \E p \in StrTable : p[1] = tok
OrdsOf(tok) == (CHOOSE p \in StrTable : p[1] = tok)[2]

LowerTable ==
    { <<"ORG", "org">>, <<"EQU", "equ">>, <<"JP", "jp">>, <<"NOP", "nop">>,
      <<"A", "a">>, <<"L1", "l1">>, <<"L2", "l2">>, <<"L3", "l3">>,
      <<"VAL", "val">>, <<"V2", "v2">>, <<"UNDEF", "undef">>,
      <<"0X{0}", "0x{0}">> }

Lower(tok) ==
    IF \E p \in LowerTable : p[1] = tok
    THEN (CHOOSE p \in LowerTable : p[1] = tok)[2]
    ELSE tok

\* tokens of the vocabulary on which re ^[A-Za-z@]+ finds no match
NoLetterStart == { "1x", "_x", ":", ",", "(", ")", "+", "-", "*", "/" }
                    \cup { p[1] : p \in NumTable } \cup { p[1] : p \in StrTable }

LabelStartOk(tok) == tok \notin NoLetterStart

(***************************************************************************)
(* z80.Z80: the reserved set and the instruction table.  The part of the   *)
(* Z80 instruction set the model assembles and decodes.                    *)
(***************************************************************************)
reserved ==
    { "a", "b", "c", "d", "e", "h", "l", "af", "bc", "de", "hl", "sp", "ix", "iy",
      "z", "nz", "nc", "ld", "jp", "jr", "call", "djnz", "nop", "halt", "inc",
      "in", "set", "bit", "res", "rst", "ret" }

\* kind: "none" | "byte" | "word" | "rel" | "jmp" | "ext"; ext: the DDCB suffix,
\* NoExt when the entry has no "ext" key
NoExt == -1
Entry(key, code, bytes, kind, ext) ==
    [asm |-> key, code |-> code, bytes |-> bytes, kind |-> kind, ext |-> ext]

codetbl ==
    { Entry(<<"nop">>, <<0>>, 1, "none", NoExt),
      Entry(<<"halt">>, <<118>>, 1, "none", NoExt),
      Entry(<<"inc", "(", "hl", ")">>, <<52>>, 1, "none", NoExt),
      Entry(<<"ret">>, <<201>>, 1, "none", NoExt),
      Entry(<<"in", "(", "c", ")">>, <<237, 112>>, 2, "none", NoExt),
      Entry(<<"ld", "a", ",", "0x{0}">>, <<62>>, 2, "byte", NoExt),
      Entry(<<"ld", "b", ",", "0x{0}">>, <<6>>, 2, "byte", NoExt),
      Entry(<<"jr", "0x{0}">>, <<24>>, 2, "rel", NoExt),
      Entry(<<"djnz", "0x{0}">>, <<16>>, 2, "rel", NoExt),
      Entry(<<"ld", "bc", ",", "0x{1}{0}">>, <<1>>, 3, "word", NoExt),
      Entry(<<"ld", "a", ",", "(", "0x{1}{0}", ")">>, <<58>>, 3, "word", NoExt),
      Entry(<<"jp", "0x{1}{0}">>, <<195>>, 3, "jmp", NoExt),
      Entry(<<"jp", "z", ",", "0x{1}{0}">>, <<202>>, 3, "jmp", NoExt),
      Entry(<<"call", "0x{1}{0}">>, <<205>>, 3, "jmp", NoExt),
      Entry(<<"ld", "ix", ",", "0x{1}{0}">>, <<221, 33>>, 4, "word", NoExt),
      Entry(<<"ld", "(", "ix", "+", "0x{0}", ")", ",", "0x{1}">>, <<221, 54>>, 4, "byte", NoExt),
      Entry(<<"set", "0", ",", "(", "ix", "+", "0x{0}", ")">>, <<221, 203>>, 4, "ext", 198),
      Entry(<<"bit", "0", ",", "(", "ix", "+", "0x{0}", ")">>, <<221, 203>>, 4, "ext", 70),
      Entry(<<"bit", "1", ",", "(", "ix", "+", "0x{0}", ")">>, <<221, 203>>, 4, "ext", 78),
      Entry(<<"res", "1", ",", "(", "iy", "+", "0x{0}", ")">>, <<253, 203>>, 4, "ext", 142),
      Entry(<<"set", "0", ",", "(", "iy", "+", "0x{0}", ")", ",", "b">>, <<253, 203>>, 4, "ext", 192) }

\* Z80.asm_map.get(key): the set of entries with that key (empty or one)
asm_map_get(key) == { u \in codetbl : u.asm = key }

\* Z80.op_map keys: (prefix, 0xCB, ext) for the DDCB/FDCB family, else the code bytes
op_map_key(u) == IF u.kind = "ext" THEN u.code \o <<u.ext>> ELSE u.code
op_map_get(key) == { u \in codetbl : op_map_key(u) = key }

(***************************************************************************)
(* evaluator.ExpressionEvaluator.  env is the evaluator's mode:            *)
(*   [pass2 |-> FALSE, defined |-> set of names]    (label_map is None)    *)
(*   [pass2 |-> TRUE, map |-> function name -> address]                    *)
(* A result is [ok, val, idx, err]; idx is the position of the next token. *)
(***************************************************************************)
EvOk(v, i) == [ok |-> TRUE, val |-> v, idx |-> i, err |-> ""]
EvErr(e) == [ok |-> FALSE, val |-> 0, idx |-> 0, err |-> e]

peek(toks, idx) == IF idx <= Len(toks) THEN toks[idx] ELSE "None"

\* Python's // on integers
FloorDiv(a, b) == IF b > 0 THEN a \div b ELSE (-a) \div (-b)

_parse_char_literal(token) ==
    IF Len(OrdsOf(token)) = 1 THEN EvOk(OrdsOf(token)[1], 0)
    ELSE IF Len(OrdsOf(token)) = 2 THEN EvOk(OrdsOf(token)[1] * 256 + OrdsOf(token)[2], 0)
    ELSE EvErr("InvalidCharLiteral")

\* a value r returned from a callee, with the position advanced to idx
EvAt(r, idx) == IF r.ok THEN EvOk(r.val, idx) ELSE r

\* mutant: pass-1 takes every identifier as defined
parse_atom_NoPass1Check(token, idx, env) ==
    IF IsStr(token) THEN EvAt(_parse_char_literal(token), idx + 1)
    ELSE IF IsInt(token) THEN EvOk(IntOf(token), idx + 1)
    ELSE IF Lower(token) \in reserved THEN EvErr("ReservedInExpression")
    ELSE IF env.pass2
         THEN IF token \in DOMAIN env.map
              THEN EvOk(env.map[token], idx + 1)
              ELSE EvErr("UndefinedLabel")
         ELSE EvOk(0, idx + 1)

\* the atom branch of parse_factor, after self.consume()
parse_atom(token, idx, env) ==
    IF IsStr(token) THEN EvAt(_parse_char_literal(token), idx + 1)
    ELSE IF IsInt(token) THEN EvOk(IntOf(token), idx + 1)
    ELSE IF Lower(token) \in reserved THEN EvErr("ReservedInExpression")
    ELSE IF env.pass2
         THEN IF token \in DOMAIN env.map
              THEN EvOk(env.map[token], idx + 1)
              ELSE EvErr("UndefinedLabel")
         ELSE IF token \notin env.defined
              THEN EvErr("UndefinedSymbol")
              ELSE EvOk(0, idx + 1)

RECURSIVE parse_factor(_, _, _)
RECURSIVE parse_mul_div_loop(_, _, _, _)
RECURSIVE parse_add_sub_loop(_, _, _, _)

\* parse_mul_div: one "* rhs" or "/ rhs" applied to val, then the loop again
parse_mul_div_apply(toks, env, val, op, rhs) ==
    IF ~rhs.ok THEN rhs
    ELSE IF op = "/" /\ rhs.val = 0 THEN EvErr("DivisionByZero")
    ELSE parse_mul_div_loop(toks, rhs.idx, env,
                            IF op = "*" THEN val * rhs.val ELSE FloorDiv(val, rhs.val))

parse_mul_div_loop(toks, idx, env, val) ==
    IF idx <= Len(toks) /\ toks[idx] \in {"*", "/"}
    THEN parse_mul_div_apply(toks, env, val, toks[idx], parse_factor(toks, idx + 1, env))
    ELSE EvOk(val, idx)

\* parse_mul_div after its first factor r
parse_mul_div_from(toks, env, r) ==
    IF r.ok THEN parse_mul_div_loop(toks, r.idx, env, r.val) ELSE r

parse_mul_div(toks, idx, env) == parse_mul_div_from(toks, env, parse_factor(toks, idx, env))

\* parse_add_sub: one "+ rhs" or "- rhs" applied to val, then the loop again
parse_add_sub_apply(toks, env, val, op, rhs) ==
    IF ~rhs.ok THEN rhs
    ELSE parse_add_sub_loop(toks, rhs.idx, env,
                            IF op = "+" THEN val + rhs.val ELSE val - rhs.val)

parse_add_sub_loop(toks, idx, env, val) ==
    IF idx <= Len(toks) /\ toks[idx] \in {"+", "-"}
    THEN parse_add_sub_apply(toks, env, val, toks[idx], parse_mul_div(toks, idx + 1, env))
    ELSE EvOk(val, idx)

\* parse_add_sub after its first term r
parse_add_sub_from(toks, env, r) ==
    IF r.ok THEN parse_add_sub_loop(toks, r.idx, env, r.val) ELSE r

parse_add_sub(toks, idx, env) == parse_add_sub_from(toks, env, parse_mul_div(toks, idx, env))

\* parse_factor: the closing parenthesis after the inner expression r
parse_factor_paren(toks, r) ==
    IF ~r.ok THEN r
    ELSE IF peek(toks, r.idx) # ")" THEN EvErr("MismatchedParen")
    ELSE EvOk(r.val, r.idx + 1)

\* parse_factor: unary minus applied to the factor r
parse_factor_neg(r) == IF r.ok THEN EvOk(-r.val, r.idx) ELSE r

parse_factor(toks, idx, env) ==
    IF idx > Len(toks) THEN EvErr("UnexpectedEnd")
    ELSE IF toks[idx] = "(" THEN parse_factor_paren(toks, parse_add_sub(toks, idx + 1, env))
    ELSE IF toks[idx] = "-" THEN parse_factor_neg(parse_factor(toks, idx + 1, env))
    ELSE IF toks[idx] = "+" THEN parse_factor(toks, idx + 1, env)
    ELSE parse_atom(toks[idx], idx, env)

\* evaluate: the "tokens left over" test on the parsed result r
evaluate_end(toks, r) ==
    IF ~r.ok THEN r
    ELSE IF r.idx # Len(toks) + 1 THEN EvErr("InvalidSyntax")
    ELSE r

\* ExpressionEvaluator.evaluate on a non-empty token list
evaluate(toks, env) == evaluate_end(toks, parse_add_sub(toks, 1, env))

(***************************************************************************)
(* asm.Asm: operand parsing and instruction encoding (pass-1 helpers).     *)
(* An operand record d is [value, location, length]; a fixup is            *)
(* [offset, size, type, src]; an encoder result is [op, fixups, err].      *)
(***************************************************************************)
SubSeqOrEmpty(s, a, b) == IF a > b THEN << >> ELSE SubSeq(s, a, b)

\* Python: ref[loc : loc + length] = [ph]   (loc is a 1-based position here)
ReplaceSpan(s, loc, length, ph) ==
    SubSeqOrEmpty(s, 1, loc - 1) \o <<ph>> \o SubSeqOrEmpty(s, loc + length, Len(s))

\* Python: ref[loc] = ph
ReplaceOne(s, loc, ph) == [s EXCEPT ![loc] = ph]

Enc(op, fixups, e) == [op |-> op, fixups |-> fixups, err |-> e]
Fixup(offset, size, type, d) == [offset |-> offset, size |-> size, type |-> type, src |-> d]

\* Asm.opcode: lower-case the tokens and look the key up
opcode(s) == asm_map_get([i \in 1..Len(s) |-> Lower(s[i])])

\* the entry of a successful table lookup
TheEntry(p) == CHOOSE x \in p : TRUE

\* op0 after the lookup p
op0_enc(p) == IF p # {} THEN Enc(TheEntry(p).code, << >>, "") ELSE Enc(<< >>, << >>, "")

op0(s) == op0_enc(opcode(s))

\* mutant: the fixup of the DDCB/FDCB family recorded at the last byte
op1_enc_ExtFixupAt3(p, d) ==
    IF p = {} THEN Enc(<< >>, << >>, "")
    ELSE IF TheEntry(p).kind = "rel"
    THEN Enc(TheEntry(p).code \o <<0>>, <<Fixup(Len(TheEntry(p).code), 1, "rel", d)>>, "")
    ELSE IF ~(-128 <= d.value /\ d.value <= 255) THEN Enc(<< >>, << >>, "ByteOutOfRange")
    ELSE IF TheEntry(p).kind = "ext"
    THEN Enc(TheEntry(p).code \o <<d.value % 256, TheEntry(p).ext>>,
             <<Fixup(3, 1, "byte", d)>>, "")
    ELSE Enc(TheEntry(p).code \o <<d.value % 256>>,
             <<Fixup(Len(TheEntry(p).code), 1, "byte", d)>>, "")

\* op1 after the lookup p of the key with the operand replaced by 0x{0}
op1_enc(p, d) ==
    IF p = {} THEN Enc(<< >>, << >>, "")
    ELSE IF TheEntry(p).kind = "rel"
    THEN Enc(TheEntry(p).code \o <<0>>, <<Fixup(Len(TheEntry(p).code), 1, "rel", d)>>, "")
    ELSE IF ~(-128 <= d.value /\ d.value <= 255) THEN Enc(<< >>, << >>, "ByteOutOfRange")
    ELSE IF TheEntry(p).kind = "ext"
    THEN Enc(TheEntry(p).code \o <<d.value % 256, TheEntry(p).ext>>,
             <<Fixup(2, 1, "byte", d)>>, "")
    ELSE Enc(TheEntry(p).code \o <<d.value % 256>>,
             <<Fixup(Len(TheEntry(p).code), 1, "byte", d)>>, "")

op1(s, d) == op1_enc(opcode(ReplaceSpan(s, d.location, d.length, "0x{0}")), d)

\* op2 after the lookup p of the key with the operand replaced by 0x{1}{0}
op2_enc(p, d) ==
    IF ~(-32768 <= d.value /\ d.value <= 65535) THEN Enc(<< >>, << >>, "WordOutOfRange")
    ELSE IF p = {} THEN Enc(<< >>, << >>, "")
    ELSE Enc(TheEntry(p).code \o <<(d.value % 65536) % 256, ((d.value % 65536) \div 256) % 256>>,
             <<Fixup(Len(TheEntry(p).code), 2, "word", d)>>, "")

op2(s, d) == op2_enc(opcode(ReplaceSpan(s, d.location, d.length, "0x{1}{0}")), d)

\* op3 after the lookup p of the key with the operands replaced by 0x{0} and 0x{1}
op3_enc(p, d0, d1) ==
    IF ~(-128 <= d0.value /\ d0.value <= 255) \/ ~(-128 <= d1.value /\ d1.value <= 255)
    THEN Enc(<< >>, << >>, "OperandOutOfRange")
    ELSE IF p = {} THEN Enc(<< >>, << >>, "")
    ELSE Enc(TheEntry(p).code \o <<d0.value % 256, d1.value % 256>>,
             <<Fixup(Len(TheEntry(p).code), 1, "byte", d0),
               Fixup(Len(TheEntry(p).code) + 1, 1, "byte", d1)>>, "")

op3(s, d0, d1) ==
    op3_enc(opcode(ReplaceOne(ReplaceOne(s, d0.location, "0x{0}"), d1.location, "0x{1}")),
            d0, d1)

_is_expression_start(tokens, index) ==
    LET token == tokens[index]
    IN  IF Lower(token) \in reserved THEN FALSE
        ELSE IF token \in {",", ")", "]", "}"} THEN FALSE
        ELSE IF token \in {"+", "-"} /\ index > 1 /\ Lower(tokens[index - 1]) \in {"ix", "iy"}
        THEN FALSE
        ELSE IF token = "(" /\ index + 2 <= Len(tokens) /\ tokens[index + 2] = ")"
                /\ Lower(tokens[index + 1]) \in reserved
        THEN FALSE
        ELSE TRUE

\* the position at which the expression that starts at start_index ends (exclusive)
RECURSIVE _find_expression_end_loop(_, _, _)
_find_expression_end_loop(tokens, end_index, paren_balance) ==
    IF end_index > Len(tokens) THEN end_index
    ELSE LET token == tokens[end_index]
             bal == IF token = "(" THEN paren_balance + 1
                    ELSE IF token = ")" THEN paren_balance - 1
                    ELSE paren_balance
         IN  IF token = "," /\ paren_balance = 0 THEN end_index
             ELSE IF bal < 0 THEN end_index
             ELSE _find_expression_end_loop(tokens, end_index + 1, bal)

_find_expression_end(tokens, start_index) == _find_expression_end_loop(tokens, start_index, 0)

\* result: [ok, none, val, consumed, err]; none is the (None, 0) return
ExprResult(r, n) ==
    [ok |-> r.ok, none |-> FALSE, val |-> r.val, consumed |-> n, err |-> r.err]

\* _evaluate_expression on the tokens of the expression
_evaluate_expression_on(expr_tokens, env) ==
    IF expr_tokens = << >>
    THEN [ok |-> TRUE, none |-> TRUE, val |-> 0, consumed |-> 0, err |-> ""]
    ELSE ExprResult(evaluate(expr_tokens, env), Len(expr_tokens))

_evaluate_expression(tokens, start_index, env) ==
    _evaluate_expression_on(
        SubSeqOrEmpty(tokens, start_index, _find_expression_end(tokens, start_index) - 1), env)

Operand(value, location, length) == [value |-> value, location |-> location, length |-> length]

RECURSIVE _parse_operands_loop(_, _, _, _)

\* _parse_operands: what the loop does with the expression result r found at position i
_parse_operands_take(toks, i, rs, env, r) ==
    IF ~r.ok /\ r.err = "UndefinedSymbol" THEN [rs |-> rs, err |-> "UndefinedSymbol"]
    ELSE IF r.ok /\ r.consumed > 0
    THEN _parse_operands_loop(toks, i + r.consumed,
                              Append(rs, Operand(r.val, i, r.consumed)), env)
    ELSE _parse_operands_loop(toks, i + 1, rs, env)

\* the mnemonics whose operands may start with a parenthesis
is_directive_with_expr(toks) == Lower(toks[1]) \in {"dw", "defw", "db", "defb"}

_parse_operands_loop(toks, i, rs, env) ==
    IF i > Len(toks) THEN [rs |-> rs, err |-> ""]
    ELSE IF ~is_directive_with_expr(toks) /\ toks[i] = "("
    THEN _parse_operands_loop(toks, i + 1, rs, env)
    ELSE IF _is_expression_start(toks, i) \/ (is_directive_with_expr(toks) /\ toks[i] = "(")
    THEN _parse_operands_take(toks, i, rs, env, _evaluate_expression(toks, i, env))
    ELSE _parse_operands_loop(toks, i + 1, rs, env)

_parse_operands(toks, env) == _parse_operands_loop(toks, 1, << >>, env)

\* asm2op: op2 is tried when op1 found no entry
asm2op_op1(toks, d, e1) == IF e1.err = "" /\ Len(e1.op) = 0 THEN op2(toks, d) ELSE e1

\* asm2op: the encoder chosen by the number of operands
asm2op_dispatch(toks, rs) ==
    IF Len(rs) = 0 THEN op0(toks)
    ELSE IF Len(rs) = 1 THEN asm2op_op1(toks, rs[1], op1(toks, rs[1]))
    ELSE IF Len(rs) = 2 THEN op3(toks, rs[1], rs[2])
    ELSE Enc(<< >>, << >>, "InvalidOperandCount")

\* asm2op after _parse_operands; bit/res/set drop their first operand (the bit number)
asm2op_parsed(toks, parsed) ==
    IF parsed.err # "" THEN Enc(<< >>, << >>, parsed.err)
    ELSE asm2op_dispatch(toks,
             IF Lower(toks[1]) \in {"bit", "res", "set"} /\ Len(parsed.rs) > 0
             THEN Tail(parsed.rs) ELSE parsed.rs)

asm2op(toks, env) == asm2op_parsed(toks, _parse_operands(toks, env))

(***************************************************************************)
(* directives.DirectiveHandler.  A result is [opcode, err].                *)
(***************************************************************************)
Dir(op, e) == [opcode |-> op, err |-> e]

RECURSIVE process_db_loop(_, _, _)
process_db_loop(toks, i, opcodes) ==
    IF i > Len(toks) THEN Dir(opcodes, "")
    ELSE LET operand == toks[i]
         IN  IF operand = "," THEN process_db_loop(toks, i + 1, opcodes)
             ELSE IF IsStr(operand)
             THEN process_db_loop(toks, i + 1, opcodes \o OrdsOf(operand))
             ELSE IF ~IsInt(operand) THEN Dir(<< >>, "DbInvalidOperand")
             ELSE IF ~(0 <= IntOf(operand) /\ IntOf(operand) <= 255)
             THEN Dir(<< >>, "DbOutOfRange")
             ELSE process_db_loop(toks, i + 1, Append(opcodes, IntOf(operand)))

process_db_pass1(toks) == process_db_loop(toks, 2, << >>)

\* the operands of tokens[from..], split at every comma, empty operands dropped
RECURSIVE _split_operands_loop(_, _, _, _)
_split_operands_loop(toks, i, current_operand, operands_list) ==
    IF i > Len(toks)
    THEN IF current_operand # << >> THEN Append(operands_list, current_operand)
         ELSE operands_list
    ELSE IF toks[i] = ","
    THEN _split_operands_loop(toks, i + 1, << >>,
             IF current_operand # << >> THEN Append(operands_list, current_operand)
             ELSE operands_list)
    ELSE _split_operands_loop(toks, i + 1, Append(current_operand, toks[i]), operands_list)

_split_operands(toks) == _split_operands_loop(toks, 1, << >>, << >>)

\* mutant: the high byte stored first
dw_bytes_BigEndian(value) == <<(value \div 256) % 256, value % 256>>

\* the two bytes process_dw_pass2 and _encode_dw_literal store for a 16-bit value
dw_bytes(value) == <<value % 256, (value \div 256) % 256>>

\* _encode_dw_literal on the value ast.literal_eval gives for a quoted token
_encode_dw_str(token) ==
    IF Len(OrdsOf(token)) = 1 THEN Dir(dw_bytes(OrdsOf(token)[1]), "")
    ELSE IF Len(OrdsOf(token)) = 2
    THEN Dir(dw_bytes(OrdsOf(token)[1] * 256 + OrdsOf(token)[2]), "")
    ELSE Dir(<< >>, "DwStringLength")

\* _encode_dw_literal on the value ast.literal_eval gives for a numeric token
_encode_dw_int(token) ==
    IF ~(0 <= IntOf(token) /\ IntOf(token) <= 65535) THEN Dir(<< >>, "DwOutOfRange")
    ELSE Dir(dw_bytes(IntOf(token)), "")

RECURSIVE process_dw_pass1_loop(_, _, _)

\* process_dw_pass1: the encoded literal lit appended, or its error raised
process_dw_pass1_literal(operands_list, k, opcodes, lit) ==
    IF lit.err # "" THEN lit
    ELSE process_dw_pass1_loop(operands_list, k + 1, opcodes \o lit.opcode)

process_dw_pass1_loop(operands_list, k, opcodes) ==
    IF k > Len(operands_list) THEN Dir(opcodes, "")
    ELSE IF Len(operands_list[k]) = 1 /\ IsStr(operands_list[k][1])
    THEN process_dw_pass1_literal(operands_list, k, opcodes, _encode_dw_str(operands_list[k][1]))
    ELSE IF Len(operands_list[k]) = 1 /\ IsInt(operands_list[k][1])
    THEN process_dw_pass1_literal(operands_list, k, opcodes, _encode_dw_int(operands_list[k][1]))
    ELSE process_dw_pass1_loop(operands_list, k + 1, opcodes \o <<0, 0>>)

process_dw_pass1(toks) ==
    process_dw_pass1_loop(_split_operands(SubSeqOrEmpty(toks, 2, Len(toks))), 1, << >>)

RECURSIVE process_dw_pass2_loop(_, _, _, _, _)

\* mutant: the value 65536 accepted by pass-2
process_dw_pass2_store_Upto65536(toks, i, current_byte_offset, opcodes, env, r) ==
    IF ~r.ok THEN Dir(opcodes, r.err)
    ELSE IF r.none THEN Dir(opcodes, "DwInvalidExpression")
    ELSE IF ~(0 <= r.val /\ r.val <= 65536) THEN Dir(opcodes, "DwOutOfRange")
    ELSE IF current_byte_offset + 2 > Len(opcodes) THEN Dir(opcodes, "IndexError")
    ELSE process_dw_pass2_loop(toks, i + r.consumed, current_byte_offset + 2,
             [opcodes EXCEPT ![current_byte_offset + 1] = dw_bytes(r.val)[1],
                             ![current_byte_offset + 2] = dw_bytes(r.val)[2]],
             env)

\* process_dw_pass2: the value r of the operand at position i stored at the byte offset;
\* Python list item assignment past the end raises IndexError
process_dw_pass2_store(toks, i, current_byte_offset, opcodes, env, r) ==
    IF ~r.ok THEN Dir(opcodes, r.err)
    ELSE IF r.none THEN Dir(opcodes, "DwInvalidExpression")
    ELSE IF ~(0 <= r.val /\ r.val <= 65535) THEN Dir(opcodes, "DwOutOfRange")
    ELSE IF current_byte_offset + 2 > Len(opcodes) THEN Dir(opcodes, "IndexError")
    ELSE process_dw_pass2_loop(toks, i + r.consumed, current_byte_offset + 2,
             [opcodes EXCEPT ![current_byte_offset + 1] = dw_bytes(r.val)[1],
                             ![current_byte_offset + 2] = dw_bytes(r.val)[2]],
             env)

process_dw_pass2_loop(toks, i, current_byte_offset, opcodes, env) ==
    IF i > Len(toks) THEN Dir(opcodes, "")
    ELSE IF toks[i] = "," THEN process_dw_pass2_loop(toks, i + 1, current_byte_offset, opcodes, env)
    ELSE process_dw_pass2_store(toks, i, current_byte_offset, opcodes, env,
                                _evaluate_expression(toks, i, env))

process_dw_pass2(toks, opcodes, env) == process_dw_pass2_loop(toks, 2, 0, opcodes, env)

(***************************************************************************)
(* asm.Asm: the passes.  An element of the assemble list is one record     *)
(* shape for both forms of the source's dictionaries:                      *)
(*   kind = "asm"   : {"line", "asm", "base", "offset"[, "opcode", "fixups"]} *)
(*   kind = "label" : {"line", "label", "base", "offset"}                  *)
(* hasop tells whether the "opcode" key is present.                        *)
(***************************************************************************)
maxword == 65535
NoBase == -1
\* pass1's last_base = None: equal to no base
NoLastBase == -2

AsmLine(line, toks, base) ==
    [line |-> line, kind |-> "asm", asm |-> toks, label |-> "", base |-> base,
     offset |-> 0, opcode |-> << >>, hasop |-> FALSE, fixups |-> << >>]

LabelLine(line, label, base) ==
    [line |-> line, kind |-> "label", asm |-> << >>, label |-> label, base |-> base,
     offset |-> 0, opcode |-> << >>, hasop |-> FALSE, fixups |-> << >>]

LabelEntry(type, symbol, value) == [type |-> type, symbol |-> symbol, value |-> value]

\* the classification of one tokenized line by pass0: "org", "equ", "label",
\* "label+opcode" or "None"
pass0_ope(toks) ==
    IF Len(toks) = 4 /\ toks[2] = ":" /\ Lower(toks[3]) = "equ" THEN "equ"
    ELSE IF Len(toks) = 2 /\ toks[2] = ":" THEN "label"
    ELSE IF Len(toks) > 2 /\ toks[2] = ":" THEN "label+opcode"
    ELSE IF Len(toks) = 2 /\ Lower(toks[1]) = "org" THEN "org"
    ELSE "None"

\* mutant: the name compared as written
pass0_is_reserved_CaseSensitive(name) == name \in reserved

\* the reserved-word test of pass0: the name in lower case is in Z80.reserved
pass0_is_reserved(name) == Lower(name) \in reserved

\* mutant: no name is taken as already defined
pass0_is_duplicate_Never(name, defined_symbols) == FALSE

\* the "already defined" test of pass0
pass0_is_duplicate(name, defined_symbols) == name \in defined_symbols

\* mutant: the value 65535 accepted
pass0_equ_value_ok_Upto65535(tok) == IsInt(tok) /\ ~(IntOf(tok) > maxword \/ IntOf(tok) < 0)

\* the EQU value test of pass0
pass0_equ_value_ok(tok) == IsInt(tok) /\ ~(IntOf(tok) >= maxword \/ IntOf(tok) < 0)

\* one iteration of the loop of pass0; st = [result, start, defined_symbols, labelmap, err]
pass0_step(st, entry) ==
    LET toks == entry.asm
        line == entry.line
        is_org == Len(toks) = 2 /\ Lower(toks[1]) = "org"
        ope == pass0_ope(toks)
        start1 == IF is_org /\ IsInt(toks[2]) THEN IntOf(toks[2]) ELSE st.start
        st1 == [st EXCEPT !.start = start1]
        lm(type, value) == Append(st.labelmap, LabelEntry(type, toks[1], value))
        defd == st.defined_symbols \cup {toks[1]}
    IN  IF is_org /\ ~IsInt(toks[2]) THEN [st EXCEPT !.err = "InvalidOrgAddress"]
        ELSE IF ope = "None"
        THEN [st1 EXCEPT !.result = Append(st.result, AsmLine(line, toks, start1))]
        ELSE IF pass0_is_reserved(toks[1]) THEN [st1 EXCEPT !.err = "ReservedWord"]
        ELSE IF pass0_is_duplicate(toks[1], st.defined_symbols)
        THEN [st1 EXCEPT !.err = "DuplicateLabel"]
        ELSE IF ~LabelStartOk(toks[1]) THEN [st1 EXCEPT !.err = "InvalidLabelFormat"]
        ELSE IF ope = "equ" /\ ~pass0_equ_value_ok(toks[4])
        THEN [st1 EXCEPT !.err = "InvalidEquValue"]
        ELSE IF ope = "equ"
        THEN [st1 EXCEPT !.labelmap = lm("equ", toks[4]), !.defined_symbols = defd]
        ELSE IF ope = "label"
        THEN [st1 EXCEPT !.labelmap = lm("label", 0), !.defined_symbols = defd,
                         !.result = Append(st.result, LabelLine(line, toks[1], start1))]
        ELSE IF ope = "label+opcode"
        THEN [st1 EXCEPT !.labelmap = lm("label+opcode", 0), !.defined_symbols = defd,
                         !.result = st.result \o
                             <<LabelLine(line, toks[1], start1),
                               AsmLine(line, SubSeq(toks, 3, Len(toks)), start1)>>]
        ELSE st1

RECURSIVE pass0_loop(_, _, _)
pass0_loop(s, i, st) ==
    IF i > Len(s) \/ st.err # "" THEN st
    ELSE pass0_loop(s, i + 1, pass0_step(st, s[i]))

pass0(s, lmap) ==
    pass0_loop(s, 1, [result |-> << >>, start |-> NoBase, defined_symbols |-> {},
                      labelmap |-> lmap, err |-> ""])

\* mutant: no token is replaced
equ_token_Unchanged(tok, m) == tok

\* Asm.equ: every token equal to an EQU symbol becomes the EQU's value token
equ_token(tok, m) == IF m.type = "equ" /\ m.symbol = tok THEN m.value ELSE tok

RECURSIVE equ_loop(_, _, _)
equ_loop(lines, lmap, k) ==
    IF k > Len(lmap) THEN lines
    ELSE equ_loop([q \in 1..Len(lines) |->
                      IF lines[q].kind = "asm"
                      THEN [lines[q] EXCEPT !.asm =
                               [r \in 1..Len(lines[q].asm) |-> equ_token(lines[q].asm[r], lmap[k])]]
                      ELSE lines[q]],
                  lmap, k + 1)

equ(lines, lmap) == equ_loop(lines, lmap, 1)

\* pass-1 placement: the offset restarts when the base differs from the last line's
pass1_offset(item_base, last_base, current_offset) ==
    IF item_base # last_base THEN 0 ELSE current_offset

\* mutant: a label takes the base alone
label_address_NoOffset(last_base, current_offset) == last_base

\* pass-1 address of a label line
label_address(last_base, current_offset) == last_base + current_offset

\* pass1 state st = [lines, current_offset, last_base, label2address, err]

\* the placement of item: the offset and last_base after the head of the loop body
pass1_place(st, item) ==
    [st EXCEPT !.current_offset = pass1_offset(item.base, st.last_base, st.current_offset),
               !.last_base = item.base]

\* mutant: the line's base takes the address of the line
pass1_emit_AddressAsBase(st, k, op, fx) ==
    [st EXCEPT !.lines[k] = [@ EXCEPT !.base = st.last_base + st.current_offset,
                                       !.offset = st.current_offset, !.opcode = op,
                                       !.hasop = TRUE, !.fixups = fx],
               !.current_offset = st.current_offset + Len(op)]

\* item k takes base, offset, opcode and fixups; the offset advances by the opcode's
\* length
pass1_emit(st, k, op, fx) ==
    [st EXCEPT !.lines[k] = [@ EXCEPT !.base = st.last_base,
                                       !.offset = st.current_offset, !.opcode = op,
                                       !.hasop = TRUE, !.fixups = fx],
               !.current_offset = st.current_offset + Len(op)]

\* a DB/DW line with the directive's result d
pass1_directive(st, k, d) ==
    IF d.err # "" THEN [st EXCEPT !.err = d.err] ELSE pass1_emit(st, k, d.opcode, << >>)

\* an instruction line with the encoder's result enc
pass1_instruction(st, k, enc) ==
    IF enc.err # "" THEN [st EXCEPT !.err = enc.err]
    ELSE IF Len(enc.op) = 0 THEN [st EXCEPT !.err = "InvalidInstruction"]
    ELSE pass1_emit(st, k, enc.op, enc.fixups)

\* a label line: its address is recorded
pass1_label(st, k) ==
    [st EXCEPT !.label2address =
                   Append(@, [label |-> st.lines[k].label,
                              address |-> label_address(st.last_base, st.current_offset)]),
               !.lines[k].offset = st.current_offset]

\* the body of the loop of pass1 on the placed state
pass1_item(st, k, env) ==
    IF st.lines[k].kind # "asm" THEN pass1_label(st, k)
    ELSE IF Lower(st.lines[k].asm[1]) \in {"db", "defb"}
    THEN pass1_directive(st, k, process_db_pass1(st.lines[k].asm))
    ELSE IF Lower(st.lines[k].asm[1]) \in {"dw", "defw"}
    THEN pass1_directive(st, k, process_dw_pass1(st.lines[k].asm))
    ELSE pass1_instruction(st, k, asm2op(st.lines[k].asm, env))

\* one iteration of the loop of pass1; k is the index of the item
pass1_step(st, k, env) == pass1_item(pass1_place(st, st.lines[k]), k, env)

RECURSIVE pass1_loop(_, _, _)
pass1_loop(st, k, env) ==
    IF k > Len(st.lines) \/ st.err # "" THEN st
    ELSE pass1_loop(pass1_step(st, k, env), k + 1, env)

pass1(lines, lmap, l2a) ==
    pass1_loop([lines |-> lines, current_offset |-> 0, last_base |-> NoLastBase,
                label2address |-> l2a, err |-> ""], 1,
               [pass2 |-> FALSE, defined |-> {lmap[m].symbol : m \in 1..Len(lmap)}])

\* pass2's label_map: the dict built from label2address (a later entry wins)
LabelMap(l2a) ==
    [n \in {l2a[i].label : i \in 1..Len(l2a)} |->
        l2a[CHOOSE i \in 1..Len(l2a) :
               l2a[i].label = n /\ \A j \in 1..Len(l2a) : l2a[j].label = n => j <= i].address]

\* mutant: the pc of a relative jump taken as the address of the jump itself
rel_pc_AtInstruction(p) == p.base + p.offset

\* the rel8 arithmetic of _pass2_instruction: pc of the line and the range test
rel_pc(p) == p.base + p.offset + Len(p.opcode)
\* mutant: the distance +128 accepted
rel_in_range_Upto128(offset) == -128 <= offset /\ offset <= 128

rel_in_range(offset) == -128 <= offset /\ offset <= 127

\* the byte and word range tests of _pass2_instruction
byte_in_range(address) == -128 <= address /\ address <= 255
word_in_range(address) == -32768 <= address /\ address <= 65535

\* the byte stored for a relative offset
rel_byte(offset) == (IF offset < 0 THEN offset + 256 ELSE offset) % 256

\* mutant: a byte fixup is passed over
apply_fixup_value_SkipsByte(p, opc, fixup, r) ==
    IF ~r.ok THEN Dir(opc, r.err)
    ELSE IF r.none THEN Dir(opc, "")
    ELSE IF fixup.type = "rel"
    THEN IF ~rel_in_range(r.val - rel_pc(p)) THEN Dir(opc, "RelativeJumpOutOfRange")
         ELSE Dir([opc EXCEPT ![fixup.offset + 1] = rel_byte(r.val - rel_pc(p))], "")
    ELSE IF fixup.type = "word"
    THEN IF ~word_in_range(r.val) THEN Dir(opc, "WordOutOfRange")
         ELSE Dir([opc EXCEPT ![fixup.offset + 1] = r.val % 256,
                              ![fixup.offset + 2] = (r.val \div 256) % 256], "")
    ELSE Dir(opc, "")

\* one fixup of _pass2_instruction with the re-evaluated operand r; result [opcode, err]
apply_fixup_value(p, opc, fixup, r) ==
    IF ~r.ok THEN Dir(opc, r.err)
    ELSE IF r.none THEN Dir(opc, "")
    ELSE IF fixup.type = "rel"
    THEN IF ~rel_in_range(r.val - rel_pc(p)) THEN Dir(opc, "RelativeJumpOutOfRange")
         ELSE Dir([opc EXCEPT ![fixup.offset + 1] = rel_byte(r.val - rel_pc(p))], "")
    ELSE IF fixup.type = "word"
    THEN IF ~word_in_range(r.val) THEN Dir(opc, "WordOutOfRange")
         ELSE Dir([opc EXCEPT ![fixup.offset + 1] = r.val % 256,
                              ![fixup.offset + 2] = (r.val \div 256) % 256], "")
    ELSE IF fixup.type = "byte"
    THEN IF ~byte_in_range(r.val) THEN Dir(opc, "ByteOutOfRange")
         ELSE Dir([opc EXCEPT ![fixup.offset + 1] = r.val % 256], "")
    ELSE Dir(opc, "")

\* one fixup of _pass2_instruction applied to the opcode
apply_fixup(p, opc, fixup, env) ==
    apply_fixup_value(p, opc, fixup, _evaluate_expression(p.asm, fixup.src.location, env))

RECURSIVE _pass2_instruction_loop(_, _, _, _)

\* the loop of _pass2_instruction after fixup f gave r
_pass2_instruction_next(p, f, env, r) ==
    IF r.err # "" THEN r ELSE _pass2_instruction_loop(p, r.opcode, f + 1, env)

_pass2_instruction_loop(p, opc, f, env) ==
    IF f > Len(p.fixups) THEN Dir(opc, "")
    ELSE _pass2_instruction_next(p, f, env, apply_fixup(p, opc, p.fixups[f], env))

_pass2_instruction(p, env) == _pass2_instruction_loop(p, p.opcode, 1, env)

\* pass2 on one line that has an opcode: a DW line or an instruction
pass2_line(p, env) ==
    IF Lower(p.asm[1]) \in {"dw", "defw"}
    THEN process_dw_pass2(p.asm, p.opcode, env)
    ELSE _pass2_instruction(p, env)

\* the result r of line k stored; st = [lines, err]
pass2_store(st, k, r) == [lines |-> [st.lines EXCEPT ![k].opcode = r.opcode], err |-> r.err]

RECURSIVE pass2_loop(_, _, _)
pass2_loop(st, k, env) ==
    IF k > Len(st.lines) \/ st.err # "" THEN st
    ELSE IF st.lines[k].kind # "asm" THEN pass2_loop(st, k + 1, env)
    ELSE pass2_loop(pass2_store(st, k, pass2_line(st.lines[k], env)), k + 1, env)

pass2(lines, l2a) ==
    pass2_loop([lines |-> lines, err |-> ""], 1, [pass2 |-> TRUE, map |-> LabelMap(l2a)])

\* pass2's update of self.labelmap with the resolved addresses
pass2_labelmap(lmap, l2a) ==
    [m \in 1..Len(lmap) |->
        IF lmap[m].symbol \in DOMAIN LabelMap(l2a)
        THEN [lmap[m] EXCEPT !.value = LabelMap(l2a)[lmap[m].symbol]]
        ELSE lmap[m]]

(***************************************************************************)
(* Asm.assemble_lines as a state machine: one action per pass.             *)
(***************************************************************************)
\* the state after pass0 returned or raised; st is its result
Pass0Done(st) ==
    /\ asm' = st.result
    /\ labelmap' = st.labelmap
    /\ err' = st.err
    /\ errpass' = IF st.err # "" THEN "pass0" ELSE ""
    /\ pc' = IF st.err # "" THEN "error" ELSE "pass0"

Pass0 ==
    /\ pc = "src"
    /\ Pass0Done(pass0(src, labelmap))
    /\ UNCHANGED <<src, label2address, prior, binfile>>
    /\ UNCHANGED disvars

Equ ==
    /\ pc = "pass0"
    /\ asm' = equ(asm, labelmap)
    /\ pc' = "equ"
    /\ UNCHANGED <<src, labelmap, label2address, err, errpass, prior, binfile>>
    /\ UNCHANGED disvars

\* the state after pass1 returned or raised; st is its result
Pass1Done(st) ==
    /\ asm' = st.lines
    /\ label2address' = st.label2address
    /\ err' = st.err
    /\ errpass' = IF st.err # "" THEN "pass1" ELSE ""
    /\ pc' = IF st.err # "" THEN "error" ELSE "pass1"

Pass1 ==
    /\ pc = "equ"
    /\ Pass1Done(pass1(asm, labelmap, label2address))
    /\ UNCHANGED <<src, labelmap, prior, binfile>>
    /\ UNCHANGED disvars

\* the state after pass2 returned or raised; st is its result
Pass2Done(st) ==
    /\ asm' = st.lines
    /\ labelmap' = pass2_labelmap(labelmap, label2address)
    /\ err' = st.err
    /\ errpass' = IF st.err # "" THEN "pass2" ELSE ""
    /\ pc' = IF st.err # "" THEN "error" ELSE "done"

Pass2 ==
    /\ pc = "pass1"
    /\ Pass2Done(pass2(asm, label2address))
    /\ UNCHANGED <<src, label2address, prior, binfile>>
    /\ UNCHANGED disvars

AsmNext == Pass0 \/ Equ \/ Pass1 \/ Pass2

\* the state after a second call of pass1 returned or raised; st is its result
Pass1AgainDone(st) ==
    /\ asm' = st.lines
    /\ label2address' = st.label2address
    /\ err' = st.err
    /\ errpass' = IF st.err # "" THEN "pass1" ELSE ""
    /\ pc' = IF st.err # "" THEN "error" ELSE "again"

\* pass1 called once more on the assemble list that pass2 has finished
Pass1Again ==
    /\ pc = "done"
    /\ Pass1AgainDone(pass1(asm, labelmap, label2address))
    /\ UNCHANGED <<src, labelmap, prior, binfile>>
    /\ UNCHANGED disvars

StableNext == AsmNext \/ Pass1Again

\* Asm.assemble_lines as a function of the tokenized source: the opcodes of the assemble
\* list and the error; a run ends at the first pass that raises
AssembleResult(lines, e, p) ==
    [lines |-> lines, opcodes |-> [k \in 1..Len(lines) |-> lines[k].opcode],
     err |-> e, errpass |-> p]
AssembleAfterPass2(st) == AssembleResult(st.lines, st.err, IF st.err # "" THEN "pass2" ELSE "")
AssembleAfterPass1(st) ==
    IF st.err # "" THEN AssembleResult(st.lines, st.err, "pass1")
    ELSE AssembleAfterPass2(pass2(st.lines, st.label2address))
AssembleAfterPass0(st) ==
    IF st.err # "" THEN AssembleResult(st.result, st.err, "pass0")
    ELSE AssembleAfterPass1(pass1(equ(st.result, st.labelmap), st.labelmap, << >>))
AssembleLines(s) == AssembleAfterPass0(pass0(s, << >>))

\* Asm.source on lines that tokenize to the given token lists
Source(toklists) == [i \in 1..Len(toklists) |-> [line |-> i, asm |-> toklists[i]]]

Programs(pool, n) == UNION { [1..k -> pool] : k \in 1..n }

(***************************************************************************)
(* __main__.command_asm: the output file.  The file is a sequence of       *)
(* bytes; data[i] is the byte at file offset i - 1.                        *)
(***************************************************************************)
\* args.size is None
NoSize == -1

\* no output file has been written
NoFile == [size |-> NoSize, data |-> << >>, written |-> FALSE]

\* f.seek(address) and f.write(bytes) on a file that holds data: a seek past the end
\* leaves a gap of zero bytes, a write inside the file overwrites
file_write(data, address, bytes) ==
    [i \in 1..(IF address + Len(bytes) > Len(data) THEN address + Len(bytes) ELSE Len(data)) |->
        IF address < i /\ i <= address + Len(bytes) THEN bytes[i - address]
        ELSE IF i <= Len(data) THEN data[i]
        ELSE 0]

\* the address command_asm writes line p at: a negative base counts as 0
write_address(p) == (IF p.base < 0 THEN 0 ELSE p.base) + p.offset

\* bytes(opcode) raises unless every element is in range(0, 256)
bytes_ok(opc) == \A i \in 1..Len(opc) : opc[i] \in 0..255

\* the loop of command_asm over the assemble list; lines without bytes are skipped, and
\* the loop ends at a line that bytes() rejects (the error is printed, the file stays)
RECURSIVE command_asm_loop(_, _, _)
command_asm_loop(lines, k, data) ==
    IF k > Len(lines) THEN data
    ELSE IF lines[k].opcode = << >> THEN command_asm_loop(lines, k + 1, data)
    ELSE IF ~bytes_ok(lines[k].opcode) THEN data
    ELSE command_asm_loop(lines, k + 1,
                          file_write(data, write_address(lines[k]), lines[k].opcode))

\* the file command_asm leaves: with -s the file starts as size zero bytes
command_asm(lines, size) ==
    command_asm_loop(lines, 1, IF size = NoSize THEN << >> ELSE [i \in 1..size |-> 0])

\* command_asm after the assembly succeeded, with -s absent or one of sizes
CommandAsm(sizes) ==
    /\ pc = "done"
    /\ ~binfile.written
    /\ \E size \in sizes \cup {NoSize} :
          binfile' = [size |-> size, data |-> command_asm(asm, size), written |-> TRUE]
    /\ UNCHANGED <<pc, src, asm, labelmap, label2address, err, errpass, prior>>
    /\ UNCHANGED disvars

\* mutant: the tables of the instance are kept
_reset_KeepTables(lmap, l2a) == [labelmap |-> lmap, label2address |-> l2a]

\* Asm._reset: labelmap and label2address emptied
_reset(lmap, l2a) == [labelmap |-> << >>, label2address |-> << >>]

\* assemble_lines called again on the instance, after a run that ended, with a source
\* of at most n lines drawn from pool: the reset, then the new source
AssembleLinesAgain(pool, n) ==
    /\ pc \in {"done", "error"}
    /\ prior' = IF pc = "done" THEN "done" ELSE errpass
    /\ labelmap' = _reset(labelmap, label2address).labelmap
    /\ label2address' = _reset(labelmap, label2address).label2address
    /\ src' \in { Source(t) : t \in Programs(pool, n) }
    /\ asm' = << >>
    /\ err' = ""
    /\ errpass' = ""
    /\ pc' = "src"
    /\ UNCHANGED binfile
    /\ UNCHANGED disvars

DisasmOff ==
    /\ dpc = "off"
    /\ start = 0
    /\ images = << >>
    /\ datamap = << >>
    /\ adr = 0
    /\ lst = << >>

\* assemble_lines called on a source of at most n lines drawn from pool
AsmInitN(pool, n) ==
    /\ pc = "src"
    /\ src \in { Source(t) : t \in Programs(pool, n) }
    /\ asm = << >>
    /\ labelmap = << >>
    /\ label2address = << >>
    /\ err = ""
    /\ errpass = ""
    /\ prior = ""
    /\ binfile = NoFile
    /\ DisasmOff

AsmInit(pool) == AsmInitN(pool, MaxLines)

(***************************************************************************)
(* disasm.Disasm.  A rendering stands for the text of a line: its form      *)
(* ("org", "insn", "data", "invalid"), the table entry's template, the      *)
(* byte values formatted into it and, for L_hhhh operands, the target; the  *)
(* comment of a "data" line shows the strmap entry of its byte.             *)
(* A line of the result list is [address, hasop, opcode, asm, label].        *)
(***************************************************************************)
NoTarget == -1

Rendered(form, tmpl, b, target) ==
    [some |-> TRUE, form |-> form, tmpl |-> tmpl, b |-> b, target |-> target]

\* a handler's or op2asm's None
NoRender == [some |-> FALSE, form |-> "", tmpl |-> << >>, b |-> << >>, target |-> NoTarget]

\* mutant: the target taken from the address of the jump itself
_reladdr_NoSkip(x, y) == ((IF x >= 128 THEN x - 256 ELSE x % 128) + y) % 65536

_reladdr(x, y) == ((IF x >= 128 THEN x - 256 ELSE x % 128) + y + 2) % 65536

_handle_1byte(u, opc, a) == Rendered("insn", u.asm, << >>, NoTarget)

_handle_2bytes(u, opc, a) ==
    IF u.kind = "rel" THEN Rendered("insn", u.asm, << >>, _reladdr(opc[2], a))
    ELSE IF u.kind = "none" THEN Rendered("insn", u.asm, << >>, NoTarget)
    ELSE Rendered("insn", u.asm, <<opc[2]>>, NoTarget)

_handle_3bytes(u, opc, a) ==
    IF u.kind = "jmp" THEN Rendered("insn", u.asm, << >>, opc[3] * 256 + opc[2])
    ELSE IF u.kind = "byte" THEN Rendered("insn", u.asm, <<opc[3]>>, NoTarget)
    ELSE IF u.kind = "word" THEN Rendered("insn", u.asm, <<opc[2], opc[3]>>, NoTarget)
    ELSE NoRender

_handle_4bytes(u, opc, a) ==
    IF u.kind = "ext" THEN Rendered("insn", u.asm, <<opc[3]>>, NoTarget)
    ELSE IF u.kind \in {"byte", "word"} THEN Rendered("insn", u.asm, <<opc[3], opc[4]>>, NoTarget)
    ELSE NoRender

\* op2asm's datamap test: adr lies in one of the ranges
in_datamap(a, dm) == \E i \in 1..Len(dm) : dm[i][1] <= a /\ dm[i][2] >= a

\* op2asm's table search: the entries found for the window (none or one)
op2asm_lookup(opc) ==
    IF Len(opc) = 4 /\ opc[1] \in {221, 253} /\ opc[2] = 203
    THEN op_map_get(<<opc[1], opc[2], opc[4]>>)
    ELSE IF Len(opc) >= 2 /\ op_map_get(SubSeq(opc, 1, 2)) # {}
    THEN op_map_get(SubSeq(opc, 1, 2))
    ELSE op_map_get(SubSeq(opc, 1, 1))

\* op2asm after the table search: the handler of the entry's length
op2asm_dispatch(a, opc, p) ==
    IF p = {} THEN NoRender
    ELSE IF TheEntry(p).bytes # Len(opc) THEN NoRender
    ELSE IF TheEntry(p).bytes = 1 THEN _handle_1byte(TheEntry(p), opc, a)
    ELSE IF TheEntry(p).bytes = 2 THEN _handle_2bytes(TheEntry(p), opc, a)
    ELSE IF TheEntry(p).bytes = 3 THEN _handle_3bytes(TheEntry(p), opc, a)
    ELSE IF TheEntry(p).bytes = 4 THEN _handle_4bytes(TheEntry(p), opc, a)
    ELSE NoRender

op2asm(a, opc, dm) ==
    IF in_datamap(a, dm) THEN Rendered("data", << >>, <<opc[1]>>, NoTarget)
    ELSE op2asm_dispatch(a, opc, op2asm_lookup(opc))

\* exec's mem after the image is loaded, and the slice mem[a : a + n]
mem(img, st, a) == IF st <= a /\ a < st + Len(img) THEN img[a - st + 1] ELSE 0
window(img, st, a, n) == [i \in 1..n |-> mem(img, st, a + i - 1)]

\* exec's end
exec_end(img, st) == st + Len(img) - 1

\* mutant: a window may end one byte after the last byte
window_fits_OneBeyond(a, n, end) == a + n - 2 <= end

\* mutant: a window must end before the last byte
window_fits_OneShort(a, n, end) == a + n <= end

\* the guard of the 4-, 3- and 2-byte attempts: a + (n - 1) <= end
window_fits(a, n, end) == a + n - 1 <= end

\* one attempt of the sweep: p and, when p is truthy, the opcode
Attempt(p, w) == [p |-> p, opcode |-> IF p.some THEN w ELSE << >>]
attempt(img, st, dm, a, n) ==
    IF n = 1 \/ window_fits(a, n, exec_end(img, st))
    THEN Attempt(op2asm(a, window(img, st, a, n), dm), window(img, st, a, n))
    ELSE Attempt(NoRender, << >>)

\* the next attempt is made only while p is None
attempt_or(r, next) == IF r.p.some THEN r ELSE next

\* the body of the sweep at address a: 4, 3, 2, then 1 bytes
decode_at(img, st, dm, a) ==
    attempt_or(attempt(img, st, dm, a, 4),
        attempt_or(attempt(img, st, dm, a, 3),
            attempt_or(attempt(img, st, dm, a, 2), attempt(img, st, dm, a, 1))))

OrgLine(a) ==
    [address |-> a, hasop |-> FALSE, opcode |-> << >>,
     asm |-> Rendered("org", << >>, <<a>>, NoTarget), label |-> NoTarget]

DisLine(a, opc, p) == [address |-> a, hasop |-> TRUE, opcode |-> opc, asm |-> p, label |-> NoTarget]

\* the line the sweep appends for the attempt r at address a
sweep_line(img, st, a, r) ==
    IF r.p.some THEN DisLine(a, r.opcode, r.p)
    ELSE DisLine(a, <<mem(img, st, a)>>,
                 Rendered("invalid", << >>, <<mem(img, st, a)>>, NoTarget))

\* exec's argument checks that return the empty list
exec_rejects(st, size) == size + st > maxword \/ st > maxword \/ st < 0

\* mutant: addr_map keeps the first line of an address
lines_with_labels_FirstIndex(l) ==
    [i \in 1..Len(l) |->
        IF /\ \E j \in 1..Len(l) : l[j].asm.target = l[i].address
           /\ \A j \in 1..Len(l) : l[j].address = l[i].address => j >= i
        THEN [l[i] EXCEPT !.label = l[i].address]
        ELSE l[i]]

\* the label pass: the targets found in the lines, attached to the line that
\* addr_map keeps for the address (the last one)
lines_with_labels(l) ==
    [i \in 1..Len(l) |->
        IF /\ \E j \in 1..Len(l) : l[j].asm.target = l[i].address
           /\ \A j \in 1..Len(l) : l[j].address = l[i].address => j <= i
        THEN [l[i] EXCEPT !.label = l[i].address]
        ELSE l[i]]

(***************************************************************************)
(* Disasm.exec as a state machine: entry, one action per iteration of the  *)
(* sweep, and the label pass.                                              *)
(***************************************************************************)
ExecStart ==
    /\ dpc = "call"
    /\ IF exec_rejects(start, Len(images))
       THEN /\ lst' = << >>
            /\ adr' = adr
            /\ dpc' = "done"
       ELSE /\ lst' = <<OrgLine(start)>>
            /\ adr' = start
            /\ dpc' = "sweep"
    /\ UNCHANGED <<start, images, datamap>>
    /\ UNCHANGED asmvars

\* the list and address after the line ln is appended
SweepAppend(ln) ==
    /\ lst' = Append(lst, ln)
    /\ adr' = adr + Len(ln.opcode)

SweepStep ==
    /\ dpc = "sweep"
    /\ adr <= exec_end(images, start)
    /\ SweepAppend(sweep_line(images, start, adr, decode_at(images, start, datamap, adr)))
    /\ UNCHANGED <<dpc, start, images, datamap>>
    /\ UNCHANGED asmvars

LabelPass ==
    /\ dpc = "sweep"
    /\ adr > exec_end(images, start)
    /\ lst' = lines_with_labels(lst)
    /\ dpc' = "done"
    /\ UNCHANGED <<adr, start, images, datamap>>
    /\ UNCHANGED asmvars

DisNext == ExecStart \/ SweepStep \/ LabelPass

(***************************************************************************)
(* The round trip of tests/test_disasm_roundtrip.py: the opcodes of the     *)
(* assemble list are laid into a 64 KiB memory, later lines over earlier    *)
(* ones, and the bytes from start_addr to the highest address written are  *)
(* disassembled at start_addr.                                             *)
(***************************************************************************)
\* the lines that write the memory cell a
writers(lines, a) ==
    { k \in 1..Len(lines) :
        \E i \in 1..Len(lines[k].opcode) :
            /\ lines[k].base + lines[k].offset + i - 1 < 65536
            /\ (lines[k].base + lines[k].offset + i - 1) % 65536 = a }

last_writer(lines, a) == CHOOSE k \in writers(lines, a) : \A j \in writers(lines, a) : j <= k

\* memory[a] after all lines are laid out
memory_cell(lines, a, k) ==
    lines[k].opcode[CHOOSE i \in 1..Len(lines[k].opcode) :
                       (lines[k].base + lines[k].offset + i - 1) % 65536 = a]

memory(lines, a) ==
    IF writers(lines, a) = {} THEN 0 ELSE memory_cell(lines, a, last_writer(lines, a))

RECURSIVE max_addr_from(_, _, _)
max_addr_from(lines, k, m) ==
    IF k > Len(lines) THEN m
    ELSE IF lines[k].opcode # << >> /\ lines[k].base + lines[k].offset + Len(lines[k].opcode) > m
    THEN max_addr_from(lines, k + 1, lines[k].base + lines[k].offset + Len(lines[k].opcode))
    ELSE max_addr_from(lines, k + 1, m)

max_addr(lines) == max_addr_from(lines, 1, 0)

\* memory[start_addr : start_addr + size] with size = max_addr - start_addr
binary_chunk(lines, s) == [i \in 1..(max_addr(lines) - s) |-> memory(lines, s + i - 1)]

\* the start addresses the round trip is run with: the addresses of the lines that have
\* bytes under an ORG
round_starts(lines) ==
    { lines[k].base + lines[k].offset :
        k \in { j \in 1..Len(lines) : lines[j].opcode # << >> /\ lines[j].base >= 0 } }

AssembleAndDisassemble ==
    /\ pc = "done"
    /\ dpc = "off"
    /\ \E s \in round_starts(asm) :
          /\ start' = s
          /\ images' = IF max_addr(asm) = 0 THEN << >> ELSE binary_chunk(asm, s)
          /\ dpc' = IF max_addr(asm) = 0 THEN "done" ELSE "call"
    /\ UNCHANGED <<datamap, adr, lst>>
    /\ UNCHANGED asmvars

RoundNext == AsmNext \/ AssembleAndDisassemble \/ DisNext

\* the assembler is not running
AsmOff ==
    /\ pc = "off"
    /\ src = << >>
    /\ asm = << >>
    /\ labelmap = << >>
    /\ label2address = << >>
    /\ err = ""
    /\ errpass = ""
    /\ prior = ""
    /\ binfile = NoFile

\* the byte images of at most n bytes over the set bytes
Images(bytes, n) == UNION { [1..k -> bytes] : k \in 0..n }

\* command_disasm: the input files read into an image of at most MaxImage bytes over
\* bytes, the data ranges of the config (given relative to the start address, each with
\* start <= end) set as datamap, and exec called with a start address of starts
CommandDisasm(starts, bytes, ranges) ==
    /\ dpc = "off"
    /\ pc = "off"
    /\ start' \in starts
    /\ images' \in Images(bytes, MaxImage)
    /\ \E r \in ranges : datamap' = [i \in 1..Len(r) |-> <<start' + r[i][1], start' + r[i][2]>>]
    /\ dpc' = "call"
    /\ UNCHANGED <<adr, lst>>
    /\ UNCHANGED asmvars

\* exec called with a start address of starts, an image of at most MaxImage bytes and
\* a datamap given as ranges relative to the start address
DisInit(starts, bytes, ranges) ==
    /\ dpc = "call"
    /\ start \in starts
    /\ images \in Images(bytes, MaxImage)
    /\ \E r \in ranges : datamap = [i \in 1..Len(r) |-> <<start + r[i][1], start + r[i][2]>>]
    /\ adr = 0
    /\ lst = << >>
    /\ AsmOff

(***************************************************************************)
(* Specifications.  Each draws the source from the programs of at most     *)
(* MaxLines lines over a pool of tokenized lines.                          *)
(***************************************************************************)
PoolLayout ==
    { <<"org", "0x100">>, <<"org", "0x200">>, <<"L1", ":">>, <<"L2", ":", "nop">>,
      <<"nop">>, <<"jp", "L1">>, <<"call", "L2">>, <<"jp", "z", ",", "L1">> }

InitLayout == AsmInit(PoolLayout)
SpecLayout == InitLayout /\ [][AsmNext]_vars

PoolRel ==
    { <<"org", "0x100">>, <<"org", "0x17E">>, <<"org", "0x17F">>, <<"org", "0x181">>,
      <<"org", "0x182">>, <<"L1", ":">>, <<"jr", "L1">>, <<"djnz", "L1">>, <<"nop">> }

InitRel == AsmInit(PoolRel)
SpecRel == InitRel /\ [][AsmNext]_vars

PoolRange ==
    { <<"org", "0x100">>, <<"L1", ":">>, <<"nop">>,
      <<"ld", "a", ",", "L1">>, <<"ld", "a", ",", "L1", "-", "200">>,
      <<"ld", "bc", ",", "L1">>, <<"ld", "bc", ",", "L1", "*", "0x100">>,
      <<"ld", "a", ",", "-", "128">>, <<"ld", "a", ",", "-", "129">>,
      <<"ld", "a", ",", "255">>, <<"ld", "a", ",", "256">>,
      <<"ld", "bc", ",", "-", "32768">>, <<"ld", "bc", ",", "-", "32769">>,
      <<"ld", "bc", ",", "65535">>, <<"ld", "bc", ",", "65536">> }

InitRange == AsmInitN(PoolRange, MaxLines - 1)
SpecRange == InitRange /\ [][AsmNext]_vars

PoolDW ==
    { <<"org", "0x1000">>, <<"L1", ":">>, <<"L2", ":", "nop">>, <<"nop">>,
      <<"dw", "L1", ",", "L2">>, <<"dw", "L2", "-", "L1">>, <<"dw", "0x1234", ",", "L1">>,
      <<"defw", "L2", "+", "1", ",", "'A'", ",", "L1">> }

InitDW == AsmInit(PoolDW)
SpecDW == InitDW /\ [][AsmNext]_vars

PoolEqu ==
    { <<"VAL", ":", "equ", "10">>, <<"V2", ":", "equ", "0x1234">>, <<"org", "0x100">>,
      <<"ld", "a", ",", "VAL">>, <<"ld", "bc", ",", "V2", "+", "VAL">>,
      <<"dw", "5", "+", "VAL", "*", "2">>, <<"db", "VAL">>, <<"L1", ":", "jp", "V2">> }

InitEqu == AsmInit(PoolEqu)
SpecEqu == InitEqu /\ [][AsmNext]_vars

PoolSym ==
    { <<"L1", ":">>, <<"VAL", ":", "equ", "10">>, <<"nop">>,
      <<"ld", "a", ",", "UNDEF">>, <<"jp", "UNDEF", "+", "1">>,
      <<"jp", "L1">>, <<"ld", "bc", ",", "L1", "+", "1">>, <<"ld", "a", ",", "VAL">>,
      <<"dw", "UNDEF">>, <<"dw", "L1", "+", "1">> }

InitSym == AsmInit(PoolSym)
SpecSym == InitSym /\ [][AsmNext]_vars

PoolDup ==
    { <<"L1", ":">>, <<"L1", ":", "nop">>, <<"L1", ":", "equ", "10">>,
      <<"L2", ":">>, <<"L2", ":", "equ", "10">>, <<"a", ":">>,
      <<"nop">>, <<"jp", "L1">> }

InitDup == AsmInit(PoolDup)
SpecDup == InitDup /\ [][AsmNext]_vars

\* nop, ld bc, jr, ld ix, the DD CB family and its suffix, in (c), and bytes that start
\* no instruction of the table on their own
DisBytes == {0, 1, 24, 33, 112, 198, 203, 221, 237}
DisStarts == {0, 65533}
DisRanges == { << >>, << <<1, 2>> >>, << <<0, 3>> >> }

InitDisasm == DisInit(DisStarts, DisBytes, DisRanges)
SpecDisasm == InitDisasm /\ [][DisNext]_vars

\* jr, jp and operand bytes that make targets at the start address, inside an
\* instruction, on a later line and outside the image
LabelBytes == {0, 1, 2, 24, 195, 254}
LabelRanges == { << >>, << <<1, 2>> >> }

InitLabel == DisInit(DisStarts, LabelBytes, LabelRanges)
SpecLabel == InitLabel /\ [][DisNext]_vars

\* DB and DW operands at and around the ends of their ranges, literal and computed
PoolData ==
    { <<"db", "0">>, <<"db", "255">>, <<"defb", "256">>, <<"db", "1", ",", "255">>,
      <<"dw", "65535">>, <<"defw", "65536">>, <<"dw", "L1", "+", "65535">>,
      <<"dw", "L1", "-", "1">>, <<"dw", "65535", "+", "1">>, <<"L1", ":">> }

InitData == AsmInit(PoolData)
SpecData == InitData /\ [][AsmNext]_vars

\* DB operands that are literals, strings and expressions of literals with values in
\* [0, 255]
PoolDbExpr ==
    { <<"db", "10">>, <<"db", "'A'", ",", "10">>, <<"db", "\"ABC\"">>,
      <<"db", "1", "+", "2">>, <<"db", "(", "3", ")">>, <<"db", "2", "*", "3", ",", "'A'">>,
      <<"db", "10", "/", "2", "-", "5">>, <<"db", "-", "1", "+", "256">> }

InitDbExpr == AsmInit(PoolDbExpr)
SpecDbExpr == InitDbExpr /\ [][AsmNext]_vars

\* EQU definitions with values at and around the ends of the accepted range, and uses
PoolEquRange ==
    { <<"VAL", ":", "equ", "0">>, <<"VAL", ":", "equ", "65534">>,
      <<"V2", ":", "equ", "65535">>, <<"V2", ":", "equ", "0xFFFE">>,
      <<"L1", ":", "equ", "65536">>, <<"L2", ":", "equ", "0xFFFF">>,
      <<"L3", ":", "equ", "-", "1">>, <<"L2", ":", "equ", "1">>,
      <<"dw", "VAL">>, <<"nop">> }

InitEquRange == AsmInit(PoolEquRange)
SpecEquRange == InitEquRange /\ [][AsmNext]_vars

\* DW lines  dw 10 + <sign> a / <sign> b  over dividends, divisors and signs
PoolDiv ==
    { <<"dw", "10", "+", s1, a, "/", s2, b>> :
        s1 \in {"+", "-"}, a \in {"0", "5", "10"}, s2 \in {"+", "-"}, b \in {"0", "2", "3"} }

InitDiv == AsmInitN(PoolDiv, MaxLines - 2)
SpecDiv == InitDiv /\ [][AsmNext]_vars

\* ORG addresses at the top of the address space and beyond, with lines of one, two
\* and three bytes
PoolSpace ==
    { <<"org", "0xFFFE">>, <<"org", "0xFFFF">>, <<"org", "70000">>, <<"org", "0x100">>,
      <<"nop">>, <<"dw", "0x1234">>, <<"L1", ":">>, <<"jp", "L1">> }

InitSpace == AsmInit(PoolSpace)
SpecSpace == InitSpace /\ [][AsmNext]_vars

\* bit, res and set on (ix+d) and (iy+d), with literal, negative and label displacements
PoolBits ==
    { <<"bit", "0", ",", "(", "ix", "+", "10", ")">>,
      <<"bit", "1", ",", "(", "ix", "+", "-", "1", ")">>,
      <<"res", "1", ",", "(", "iy", "+", "L1", ")">>,
      <<"set", "0", ",", "(", "ix", "+", "L1", "+", "1", ")">>,
      <<"set", "0", ",", "(", "iy", "+", "10", ")", ",", "b">>,
      <<"set", "0", ",", "(", "iy", "+", "L1", ")", ",", "b">>,
      <<"L1", ":">>, <<"nop">> }

InitBits == AsmInit(PoolBits)
SpecBits == InitBits /\ [][AsmNext]_vars

\* ld (ix+d), n with operands of one token and of several tokens
PoolTwoByte ==
    { <<"ld", "(", "ix", "+", "5", ")", ",", "0x10">>,
      <<"ld", "(", "ix", "+", "L1", ")", ",", "5">>,
      <<"ld", "(", "ix", "+", "5", ")", ",", "-", "1">>,
      <<"ld", "(", "ix", "+", "-", "1", ")", ",", "5">>,
      <<"ld", "(", "ix", "+", "5", ")", ",", "L1", "+", "1">>,
      <<"L1", ":">>, <<"nop">> }

InitTwoByte == AsmInit(PoolTwoByte)
SpecTwoByte == InitTwoByte /\ [][AsmNext]_vars

\* lines of every size under two bases, with labels used by absolute and relative jumps
\* and by DW
PoolStable ==
    { <<"org", "0x100">>, <<"L1", ":">>, <<"L2", ":", "nop">>, <<"jp", "L1">>,
      <<"jr", "L2">>, <<"dw", "L1">>, <<"db", "1", ",", "2">>, <<"ld", "a", ",", "5">> }

InitStable == AsmInit(PoolStable)
SpecStable == InitStable /\ [][StableNext]_vars

\* sources that define and use a label and an EQU, and that end in every way: assembled,
\* a duplicate label (pass0), an undefined symbol (pass1), a byte out of range (pass2)
PoolReuse ==
    { <<"org", "0x100">>, <<"L1", ":">>, <<"ld", "a", ",", "L1">>,
      <<"N", ":", "equ", "5">>, <<"ld", "a", ",", "N">> }

InitReuse == AsmInitN(PoolReuse, MaxLines - 1)
ReuseNext == AsmNext \/ AssembleLinesAgain(PoolReuse, MaxLines - 1)
SpecReuse == InitReuse /\ [][ReuseNext]_vars

\* every reserved word as a label, reserved words in upper case and as the name of an
\* EQU and of a label with an instruction, and lines pass0 accepts
PoolReserved ==
    { <<w, ":">> : w \in reserved }
        \cup { <<"A", ":">>, <<"NOP", ":", "equ", "5">>, <<"JP", ":", "nop">>,
               <<"hl", ":", "equ", "5">>, <<"ret", ":", "nop">>,
               <<"L1", ":">>, <<"L1", ":", "nop">>, <<"nop">> }

InitReserved == AsmInitN(PoolReserved, MaxLines - 2)
SpecReserved == InitReserved /\ [][AsmNext]_vars

\* bytes at the start of the file, after a gap, and in regions that meet
PoolFile ==
    { <<"org", "2">>, <<"org", "5">>, <<"nop">>, <<"db", "1", ",", "2">>,
      <<"ld", "a", ",", "5">>, <<"L1", ":">>, <<"jp", "L1">> }

\* the values of -s
FileSizes == {0, 1, 3, 8}

InitFile == AsmInit(PoolFile)
FileNext == AsmNext \/ CommandAsm(FileSizes)
SpecFile == InitFile /\ [][FileNext]_vars

\* instructions with a byte, a word, a relative, a displacement and two byte fixups,
\* all naming a label placed at a small address
PoolPatch ==
    { <<"org", "5">>, <<"L1", ":">>, <<"nop">>, <<"ld", "a", ",", "L1">>, <<"jp", "L1">>,
      <<"jr", "L1">>, <<"set", "0", ",", "(", "ix", "+", "L1", ")">>,
      <<"ld", "(", "ix", "+", "L1", ")", ",", "L1">>, <<"dw", "L1">> }

InitPatch == AsmInit(PoolPatch)
SpecPatch == InitPatch /\ [][AsmNext]_vars

\* images of nop, ld bc, jr, the DD CB family and bytes that start no instruction, at
\* the bottom and near the top of the address space, with and without data ranges
SweepBytes == {0, 1, 24, 198, 203, 221}
SweepStarts == {0, 65531}

InitSweep == AsmOff /\ DisasmOff
SweepNext == CommandDisasm(SweepStarts, SweepBytes, DisRanges) \/ DisNext
SpecSweep == InitSweep /\ [][SweepNext]_vars

\* operands that are in range, or defined, with the label's address but not with 0 in
\* its place, and operands that are out of range either way
PoolPlaceholder ==
    { <<"org", "300">>, <<"L1", ":">>, <<"nop">>,
      <<"ld", "a", ",", "L1", "-", "200">>, <<"ld", "a", ",", "10", "/", "L1">>,
      <<"jp", "L1", "-", "200">>, <<"ld", "a", ",", "L1">> }

InitPlaceholder == AsmInit(PoolPlaceholder)
SpecPlaceholder == InitPlaceholder /\ [][AsmNext]_vars

\* labels used by an absolute jump, a relative jump and a DW, before any ORG and after one
PoolNoOrg ==
    { <<"org", "0x100">>, <<"L1", ":">>, <<"nop">>, <<"jp", "L1">>, <<"jr", "L1">>,
      <<"dw", "L1">> }

InitNoOrg == AsmInit(PoolNoOrg)
SpecNoOrg == InitNoOrg /\ [][AsmNext]_vars

\* operands of every form: numbers, a negative value, a label expression, character
\* literals, and DB and DW strings, one of them with a character beyond code point 255
PoolBytes ==
    { <<"org", "0x100">>, <<"L1", ":">>, <<"ld", "a", ",", "-", "1">>,
      <<"ld", "a", ",", "'A'">>, <<"jp", "L1", "-", "1">>, <<"db", "'A'", ",", "255">>,
      <<"db", "\"\\u3042\"">>, <<"dw", "\"\\u3042\"">>, <<"dw", "'AB'", ",", "L1">> }

InitBytes == AsmInitN(PoolBytes, MaxLines - 1)
SpecBytes == InitBytes /\ [][AsmNext]_vars

\* relative jumps forward and backward, at the distances -128 and 127 and nearby
PoolRound ==
    { <<"org", "0x100">>, <<"org", "0x17E">>, <<"org", "0x181">>,
      <<"L1", ":">>, <<"jr", "L1">>, <<"djnz", "L1">>, <<"nop">> }

InitRound == AsmInit(PoolRound)
SpecRound == InitRound /\ [][RoundNext]_vars

\* the program as a whole: an assembly or a disassembly
Init == InitLayout \/ InitDisasm
Next == AsmNext \/ DisNext
Spec == Init /\ [][Next]_vars

(***************************************************************************)
(* Vocabulary of the properties                                            *)
(***************************************************************************)
AsmIdx == 1..Len(asm)
Succeeded == pc = "done"
Failed == pc = "error"

IsLabelLine(k) == asm[k].kind = "label"
IsAsmLine(k) == asm[k].kind = "asm"

\* the index of the line that defines label L, 0 if there is none
DefIdx(L) ==
    IF \E d \in AsmIdx : IsLabelLine(d) /\ asm[d].label = L
    THEN CHOOSE d \in AsmIdx : IsLabelLine(d) /\ asm[d].label = L
    ELSE 0

\* the first index of the run of lines that share line k's base without interruption
RECURSIVE RunStart(_)
RunStart(k) == IF k = 1 \/ asm[k - 1].base # asm[k].base THEN k ELSE RunStart(k - 1)

\* the number of bytes emitted by the lines from..(to - 1)
RECURSIVE Emitted(_, _)
Emitted(from, to) ==
    IF from >= to THEN 0 ELSE Len(asm[from].opcode) + Emitted(from + 1, to)

\* the value of the last ORG line of the source before source line n, NoBase if none
RECURSIVE OrgInForce(_)
OrgInForce(n) ==
    IF n <= 1 THEN NoBase
    ELSE IF Len(src[n - 1].asm) = 2 /\ Lower(src[n - 1].asm[1]) = "org"
    THEN IntOf(src[n - 1].asm[2])
    ELSE OrgInForce(n - 1)

\* the address the layout rules give the line at index d
LaidOutAddress(d) == OrgInForce(asm[d].line) + Emitted(RunStart(d), d)

\* little-endian word at 0-based offset o of a byte vector
WordAt(opc, o) == opc[o + 1] + 256 * opc[o + 2]

\* line k is an instruction whose one operand is the single label token L in a word slot
IsWordLabelRef(k, L) ==
    /\ IsAsmLine(k)
    /\ Len(asm[k].fixups) = 1
    /\ asm[k].fixups[1].type = "word"
    /\ asm[k].fixups[1].src.length = 1
    /\ asm[k].asm[asm[k].fixups[1].src.location] = L
    /\ DefIdx(L) # 0

\* C1: after a successful assembly every word slot that names a label L, defined
\* before or after the instruction, holds the little-endian encoding of L's final
\* address (exactly the address when an ORG is in force, its 16-bit two's complement
\* otherwise); L's final address is the base in force at its definition plus the
\* bytes emitted since the offset last restarted; a label line emits no bytes; a
\* label on the line of an instruction has the address of the instruction's first byte.
C1_WordSlotHoldsLabelAddress ==
    Succeeded =>
        /\ \A k \in AsmIdx : \A L \in DOMAIN LabelMap(label2address) :
              IsWordLabelRef(k, L) =>
                 LET d == DefIdx(L)
                     A == LabelMap(label2address)[L]
                     o == asm[k].fixups[1].offset
                 IN  /\ A = LaidOutAddress(d)
                     /\ A = asm[d].base + asm[d].offset
                     /\ asm[k].opcode[o + 1] = A % 256
                     /\ asm[k].opcode[o + 2] = (A \div 256) % 256
                     /\ asm[d].base >= 0 => WordAt(asm[k].opcode, o) = A
        /\ \A d \in AsmIdx : IsLabelLine(d) =>
              /\ ~asm[d].hasop /\ asm[d].opcode = << >>
              /\ (d < Len(asm) /\ asm[d + 1].line = asm[d].line) =>
                     /\ IsAsmLine(d + 1)
                     /\ LabelMap(label2address)[asm[d].label]
                            = asm[d + 1].base + asm[d + 1].offset

\* C1 witness: one successful program with an ORG in force, a forward reference and a
\* backward reference to a label placed after emitted bytes
C1_Witness ==
    /\ Succeeded
    /\ \E k1, k2 \in AsmIdx : \E L \in DOMAIN LabelMap(label2address) :
          /\ IsWordLabelRef(k1, L) /\ IsWordLabelRef(k2, L)
          /\ k1 < DefIdx(L) /\ DefIdx(L) < k2
          /\ asm[DefIdx(L)].base >= 0
          /\ asm[DefIdx(L)].offset > 0

\* source line n is an ORG line
IsOrgSrc(n) == Len(src[n].asm) = 2 /\ Lower(src[n].asm[1]) = "org"

\* index k is the first element of the assemble list that comes from its source line
FirstOfLine(k) == k = 1 \/ asm[k - 1].line < asm[k].line

\* C3: for every ORG addr line, whatever was in force before it, the first byte-emitting
\* line or label after it has base addr and offset 0, so it is placed exactly at addr.
C3_OrgRestartsOffset ==
    pc \in {"pass1", "done"} =>
        \A k \in AsmIdx :
            (asm[k].line > 1 /\ IsOrgSrc(asm[k].line - 1) /\ FirstOfLine(k)) =>
                /\ asm[k].base = IntOf(src[asm[k].line - 1].asm[2])
                /\ asm[k].offset = 0

\* line k carries a rel8 fixup whose operand is the single label token L
IsRelLabelRef(k, L) ==
    /\ IsAsmLine(k)
    /\ Len(asm[k].fixups) = 1
    /\ asm[k].fixups[1].type = "rel"
    /\ asm[k].fixups[1].src.length = 1
    /\ asm[k].asm[asm[k].fixups[1].src.location] = L
    /\ L \in DOMAIN LabelMap(label2address)

\* delta = target address - (base + offset + len(opcode)) of the jump at line k
RelDelta(k, L) ==
    LabelMap(label2address)[L] - (asm[k].base + asm[k].offset + Len(asm[k].opcode))

\* C2: for every rel8 fixup, with pc = base + offset + len(opcode) of the jump line and
\* delta = target - pc: a finished assembly has delta in [-128, 127] and the slot byte
\* delta mod 256, for forward and backward targets; a delta outside the range ends
\* pass-2 with the relative-jump-out-of-range error, and only such a delta does.
C2_Rel8Fixup ==
    /\ Succeeded =>
          \A k \in AsmIdx : \A L \in DOMAIN LabelMap(label2address) :
              IsRelLabelRef(k, L) =>
                  /\ -128 <= RelDelta(k, L) /\ RelDelta(k, L) <= 127
                  /\ asm[k].opcode[asm[k].fixups[1].offset + 1] = RelDelta(k, L) % 256
    /\ (Failed /\ errpass = "pass2") =>
          /\ err = "RelativeJumpOutOfRange"
          /\ \E k \in AsmIdx : \E L \in DOMAIN LabelMap(label2address) :
                /\ IsRelLabelRef(k, L)
                /\ (RelDelta(k, L) < -128 \/ RelDelta(k, L) > 127)

\* C2 witness: a finished assembly with a forward jump and a backward jump to one label
C2_Witness ==
    /\ Succeeded
    /\ \E k1, k2 \in AsmIdx : \E L \in DOMAIN LabelMap(label2address) :
          /\ IsRelLabelRef(k1, L) /\ IsRelLabelRef(k2, L)
          /\ k1 < DefIdx(L) /\ DefIdx(L) < k2
          /\ RelDelta(k1, L) >= 0 /\ RelDelta(k2, L) < 0

\* a token that the evaluator resolves through the symbol table
IsIdent(t) ==
    /\ ~IsInt(t) /\ ~IsStr(t)
    /\ Lower(t) \notin reserved
    /\ t \notin {",", "(", ")", ":", "+", "-", "*", "/"}

\* the evaluator's pass-2 mode over the addresses recorded so far
FinalEnv == [pass2 |-> TRUE, map |-> LabelMap(label2address)]

\* the operand tokens of fixup f of line k and their value under the recorded addresses
SlotTokens(k, f) ==
    SubSeq(asm[k].asm, asm[k].fixups[f].src.location,
           asm[k].fixups[f].src.location + asm[k].fixups[f].src.length - 1)
FinalValue(k, f) == evaluate(SlotTokens(k, f), FinalEnv).val

InByteRange(v) == -128 <= v /\ v <= 255
InWordRange(v) == -32768 <= v /\ v <= 65535

\* the slot of fixup f of line k holds v: one byte v mod 256, or v mod 65536 little-endian
SlotHolds(k, f, v) ==
    LET o == asm[k].fixups[f].offset
    IN  IF asm[k].fixups[f].type = "byte"
        THEN InByteRange(v) /\ asm[k].opcode[o + 1] = v % 256
        ELSE /\ InWordRange(v)
             /\ asm[k].opcode[o + 1] = (v % 65536) % 256
             /\ asm[k].opcode[o + 2] = (v % 65536) \div 256

\* the byte and word fixups of the assemble list
SlotFixups ==
    { kf \in AsmIdx \X (1..2) :
         /\ IsAsmLine(kf[1])
         /\ kf[2] <= Len(asm[kf[1]].fixups)
         /\ asm[kf[1]].fixups[kf[2]].type \in {"byte", "word"} }

\* the line on which pass-1 stopped: the first instruction without an opcode
Pass1FailedLine == CHOOSE k \in AsmIdx : IsAsmLine(k) /\ ~asm[k].hasop
                                          /\ \A j \in 1..(k - 1) : IsAsmLine(j) => asm[j].hasop

\* the values of the operands of line k under the recorded addresses
FinalOperandValues(k) ==
    LET rs == _parse_operands(asm[k].asm, FinalEnv).rs
    IN  [i \in 1..Len(rs) |-> rs[i].value]

AllIdentsResolved(k) ==
    \A i \in 1..Len(asm[k].asm) :
        IsIdent(asm[k].asm[i]) => asm[k].asm[i] \in DOMAIN LabelMap(label2address)

\* C4: every byte slot of a finished assembly holds v mod 256 with v, the operand's
\* final value, in [-128, 255], and every word slot holds v mod 65536 little-endian with
\* v in [-32768, 65535]; literal operands are already so after pass-1; and an assembly
\* ends with an out-of-range error only if the final value of a slot operand is outside
\* its range (in pass-1: of the line that failed, when its labels are already placed).
C4_SlotRange ==
    /\ Succeeded => \A kf \in SlotFixups : SlotHolds(kf[1], kf[2], FinalValue(kf[1], kf[2]))
    /\ pc = "pass1" =>
          \A kf \in SlotFixups :
              (\A i \in 1..Len(SlotTokens(kf[1], kf[2])) : ~IsIdent(SlotTokens(kf[1], kf[2])[i]))
                  => SlotHolds(kf[1], kf[2], FinalValue(kf[1], kf[2]))
    /\ (Failed /\ errpass = "pass2" /\ err \in {"ByteOutOfRange", "WordOutOfRange"}) =>
          \E kf \in SlotFixups :
              IF asm[kf[1]].fixups[kf[2]].type = "byte"
              THEN err = "ByteOutOfRange" /\ ~InByteRange(FinalValue(kf[1], kf[2]))
              ELSE err = "WordOutOfRange" /\ ~InWordRange(FinalValue(kf[1], kf[2]))
    /\ (Failed /\ errpass = "pass1" /\ err \in {"ByteOutOfRange", "WordOutOfRange"}
           /\ AllIdentsResolved(Pass1FailedLine)) =>
          \E v \in { FinalOperandValues(Pass1FailedLine)[i] :
                        i \in DOMAIN FinalOperandValues(Pass1FailedLine) } :
              IF err = "ByteOutOfRange" THEN ~InByteRange(v) ELSE ~InWordRange(v)

\* line k is a DW/DEFW line that pass-1 has encoded
IsDwLine(k) == IsAsmLine(k) /\ asm[k].hasop /\ Lower(asm[k].asm[1]) \in {"dw", "defw"}

\* the positions of the commas of a token list, and its number of comma-separated operands
Commas(toks) == { j \in 2..Len(toks) : toks[j] = "," }
NumOperands(toks) == IF Len(toks) < 2 THEN 0 ELSE Cardinality(Commas(toks)) + 1

\* the tokens of the i-th comma-separated operand
OperandTokens(toks, i) ==
    LET idx == { j \in 2..Len(toks) :
                    toks[j] # "," /\ Cardinality({ c \in Commas(toks) : c < j }) = i - 1 }
        first == CHOOSE j \in idx : \A m \in idx : j <= m
    IN  [n \in 1..Cardinality(idx) |-> toks[first + n - 1]]

\* the value of a term and of an operand of the shapes  t,  t + t,  t - t  under the
\* final label addresses
TermValue(t) ==
    IF IsInt(t) THEN IntOf(t)
    ELSE IF IsStr(t) THEN OrdsOf(t)[1]
    ELSE LabelMap(label2address)[t]
OperandValue(op) ==
    IF Len(op) = 1 THEN TermValue(op[1])
    ELSE IF op[2] = "+" THEN TermValue(op[1]) + TermValue(op[3])
    ELSE TermValue(op[1]) - TermValue(op[3])

\* an operand for which pass-1 leaves a placeholder: a label or a multi-token expression
IsDeferredOperand(op) == Len(op) > 1 \/ IsIdent(op[1])

\* C5: a DW/DEFW line with k comma-separated operands has exactly 2k bytes from pass-1
\* on and its length never changes; after pass-1 the two bytes of every operand that is
\* a label or a multi-token expression are 00 00; after pass-2 the two bytes of the i-th
\* operand are the little-endian value of the operand under the final label addresses,
\* for labels defined before or after the line.
C5_DwTwoBytesPerOperand ==
    \A k \in AsmIdx : IsDwLine(k) =>
        /\ Len(asm[k].opcode) = 2 * NumOperands(asm[k].asm)
        /\ \A i \in 1..NumOperands(asm[k].asm) :
              /\ (pc = "pass1" /\ IsDeferredOperand(OperandTokens(asm[k].asm, i))) =>
                     asm[k].opcode[2 * i - 1] = 0 /\ asm[k].opcode[2 * i] = 0
              /\ Succeeded =>
                     /\ asm[k].opcode[2 * i - 1] = OperandValue(OperandTokens(asm[k].asm, i)) % 256
                     /\ asm[k].opcode[2 * i] = OperandValue(OperandTokens(asm[k].asm, i)) \div 256

\* C5 witness: a finished assembly with a DW line of two operands, one a label defined
\* before the line and one a label defined after it, at non-zero addresses
C5_Witness ==
    /\ Succeeded
    /\ \E k \in AsmIdx :
          /\ IsDwLine(k)
          /\ asm[k].asm = <<"dw", "L1", ",", "L2">>
          /\ DefIdx("L1") # 0 /\ DefIdx("L1") < k /\ k < DefIdx("L2")
          /\ asm[k].opcode[2] # 0 /\ asm[k].opcode[4] # 0
          /\ asm[k].opcode[1] # asm[k].opcode[3]

\* source line n defines an EQU
IsEquSrc(n) == Len(src[n].asm) = 4 /\ src[n].asm[2] = ":" /\ Lower(src[n].asm[3]) = "equ"

\* the names the source defines by EQU, and the value token of such a name
EquNames == { src[n].asm[1] : n \in { m \in 1..Len(src) : IsEquSrc(m) } }
EquValueToken(name) == src[CHOOSE n \in 1..Len(src) : IsEquSrc(n) /\ src[n].asm[1] = name].asm[4]

\* a token as the claim has it after the substitution
Substituted(t) == IF t \in EquNames THEN EquValueToken(t) ELSE t

\* the tokens the source wrote for the instruction or directive at index k
OrigTokens(k) ==
    LET t == src[asm[k].line].asm
    IN  IF Len(t) > 2 /\ t[2] = ":" THEN SubSeq(t, 3, Len(t)) ELSE t

\* the source with the literal written in place of every use of an EQU symbol (the EQU
\* lines themselves and the name a line defines stay as they are)
LiteralSource ==
    [n \in 1..Len(src) |->
        IF IsEquSrc(n) THEN src[n]
        ELSE [src[n] EXCEPT !.asm =
                 [r \in 1..Len(src[n].asm) |->
                     IF r = 1 /\ Len(src[n].asm) >= 2 /\ src[n].asm[2] = ":"
                     THEN src[n].asm[r]
                     ELSE Substituted(src[n].asm[r])]]]

\* C6: from the EQU pre-pass on, every token of an instruction or directive line that is
\* an EQU symbol is the EQU's value token and every other token is as written, whether
\* the EQU is defined before or after the use; and a run ends as the run on the source
\* with the literals written in place ends: same error or same bytes, line by line.
C6_EquSubstitution ==
    /\ pc \in {"equ", "pass1", "done"} =>
          \A k \in AsmIdx : IsAsmLine(k) =>
              /\ Len(asm[k].asm) = Len(OrigTokens(k))
              /\ \A r \in 1..Len(asm[k].asm) : asm[k].asm[r] = Substituted(OrigTokens(k)[r])
    /\ pc \in {"done", "error"} =>
          /\ err = AssembleLines(LiteralSource).err
          /\ errpass = AssembleLines(LiteralSource).errpass
          /\ Succeeded =>
                AssembleLines(LiteralSource).opcodes = [k \in AsmIdx |-> asm[k].opcode]

\* C6 witness: a finished assembly in which an EQU symbol is used before its definition
\* and inside a larger expression
C6_Witness ==
    /\ Succeeded
    /\ \E k \in AsmIdx : \E n \in 1..Len(src) :
          /\ IsEquSrc(n) /\ src[n].asm[1] = "VAL"
          /\ asm[k].line < n
          /\ OrigTokens(k) = <<"dw", "5", "+", "VAL", "*", "2">>
          /\ asm[k].opcode = <<25, 0>>
    /\ \E k \in AsmIdx : \E n \in 1..Len(src) :
          /\ IsEquSrc(n) /\ src[n].asm[1] = "VAL"
          /\ asm[k].line > n
          /\ OrigTokens(k) = <<"ld", "a", ",", "VAL">>
          /\ asm[k].opcode = <<62, 10>>

\* the names the source defines, as a label, a label with an instruction, or an EQU
DefinedNames == { src[n].asm[1] : n \in { m \in 1..Len(src) :
                                            Len(src[m].asm) >= 2 /\ src[m].asm[2] = ":" } }

\* the identifiers among the operand tokens of line k
Idents(k) == { asm[k].asm[i] : i \in { j \in 2..Len(asm[k].asm) : IsIdent(asm[k].asm[j]) } }

\* line k is an instruction (not a DB or DW directive)
IsInstruction(k) ==
    IsAsmLine(k) /\ Lower(asm[k].asm[1]) \notin {"db", "defb", "dw", "defw"}

\* the value pass-1 recorded for the operand of fixup f of line k
Pass1Value(k, f) == asm[k].fixups[f].src.value

\* C7: (1) a run in which an instruction operand names an identifier defined nowhere in
\* the source never gets past pass-1: pass-1 fails with the undefined-symbol error on
\* the line that names it; (2) after pass-1 every identifier of an
\* instruction is defined somewhere in the source, before or after its use, and has
\* evaluated to 0 (an operand  L  has the value 0,  L + 1  the value 1); (3) pass-2 fails
\* with the undefined-label error exactly when an identifier of a line is absent from the
\* final symbol table, which is where an undefined identifier of a DW operand is reported.
C7_UndefinedIdentifiers ==
    /\ pc \in {"pass1", "done"} \/ (Failed /\ errpass = "pass2") =>
          \A k \in AsmIdx : IsInstruction(k) => Idents(k) \subseteq DefinedNames
    /\ (Failed /\ errpass = "pass1") =>
          /\ err = "UndefinedSymbol"
          /\ IsInstruction(Pass1FailedLine)
          /\ ~(Idents(Pass1FailedLine) \subseteq DefinedNames)
    /\ pc = "pass1" =>
          \A k \in AsmIdx : IsInstruction(k) =>
              \A f \in 1..Len(asm[k].fixups) :
                  /\ Len(SlotTokens(k, f)) = 1 /\ IsIdent(SlotTokens(k, f)[1])
                        => Pass1Value(k, f) = 0
                  /\ Len(SlotTokens(k, f)) = 3 /\ IsIdent(SlotTokens(k, f)[1])
                        => Pass1Value(k, f) = IntOf(SlotTokens(k, f)[3])
    /\ Succeeded =>
          \A k \in AsmIdx : IsAsmLine(k) => Idents(k) \subseteq DOMAIN LabelMap(label2address)
    /\ (Failed /\ errpass = "pass2") =>
          /\ err = "UndefinedLabel"
          /\ \E k \in AsmIdx :
                /\ IsAsmLine(k) /\ ~IsInstruction(k)
                /\ ~(Idents(k) \subseteq DOMAIN LabelMap(label2address))

\* C7 witness: pass-1 has given the placeholder to a label defined after its use and
\* then failed on an instruction that names an identifier defined nowhere
C7_Witness ==
    /\ Failed /\ errpass = "pass1" /\ err = "UndefinedSymbol"
    /\ asm[Pass1FailedLine].asm = <<"ld", "a", ",", "UNDEF">>
    /\ \E k \in 1..(Pass1FailedLine - 1) :
          /\ asm[k].asm = <<"jp", "L1">>
          /\ asm[k].hasop /\ Pass1Value(k, 1) = 0
          /\ k < DefIdx("L1")

\* source line n defines a name: a label-only line, a label with an instruction or an EQU
IsDefSrc(n) == Len(src[n].asm) >= 2 /\ src[n].asm[2] = ":"

\* the source lines that define name
DefLines(name) == { n \in 1..Len(src) : IsDefSrc(n) /\ src[n].asm[1] = name }

\* the source lines that define a name for the second (or a later) time
Redefinitions == { n \in 1..Len(src) : IsDefSrc(n) /\ \E m \in DefLines(src[n].asm[1]) : m < n }

\* the source lines pass-0 rejects for another reason: a reserved word as a name
ReservedDefs == { n \in 1..Len(src) : IsDefSrc(n) /\ Lower(src[n].asm[1]) \in reserved }

\* C8: a source that defines one name more than once, as label-only lines, labels with
\* an instruction or EQUs in any combination and order, never gets past pass-0: pass-0
\* fails, with the duplicate-definition error unless it rejected an earlier line for
\* another reason; so every name of the symbol table of a successful assembly has
\* exactly one defining source line.
C8_DuplicateDefinition ==
    /\ (Redefinitions # {} /\ pc # "src") =>
          /\ Failed /\ errpass = "pass0"
          /\ (\A n \in ReservedDefs : \E d \in Redefinitions : d < n) => err = "DuplicateLabel"
    /\ Succeeded =>
          /\ \A name \in DOMAIN LabelMap(label2address) : Cardinality(DefLines(name)) = 1
          /\ \A m \in 1..Len(labelmap) : Cardinality(DefLines(labelmap[m].symbol)) = 1

\* C8 witness: pass-0 has failed with the duplicate-definition error on a source that
\* defines L1 by an EQU and later as the label of an instruction
C8_Witness ==
    /\ Failed /\ errpass = "pass0" /\ err = "DuplicateLabel"
    /\ \E m, n \in 1..Len(src) :
          /\ m < n
          /\ src[m].asm = <<"L1", ":", "equ", "10">>
          /\ src[n].asm = <<"L1", ":", "nop">>

\* the last address of the image being disassembled
DisEnd == exec_end(images, start)

\* the address the sweep went to after line i: the next line's, or the current one
NextAddress(i) == IF i < Len(lst) THEN lst[i + 1].address ELSE adr

\* the n-byte window at a matches: the table returns a descriptor whose length is n and
\* whose rendering is not None
Matches(a, n) ==
    op2asm_dispatch(a, window(images, start, a, n),
                    op2asm_lookup(window(images, start, a, n))).some

\* the window lengths that fit before the end of the image and match at a
Candidates(a) == { n \in 1..4 : a + n - 1 <= DisEnd /\ Matches(a, n) }

Largest(S) == CHOOSE n \in S : \A m \in S : m <= n

\* the bytes left at a begin an instruction of the table that is longer than what is left
Truncated(a) ==
    \E u \in codetbl :
        /\ u.bytes > DisEnd - a + 1
        /\ \A k \in 1..Len(u.code) : k <= DisEnd - a + 1 => mem(images, start, a + k - 1) = u.code[k]

\* C9: the sweep starts at the start address, and every line at an address a outside the
\* data ranges consumes the largest n of 4, 3, 2, 1 such that n bytes remain and the
\* n-byte window matches, as an instruction line of exactly those bytes; when no n
\* matches the line is the Invalid Opcode db of the one byte at a; the sweep resumes
\* right after the bytes of the line.  An instruction longer than the bytes that remain
\* is never decoded: its first byte becomes an Invalid Opcode line and the sweep resumes
\* at a + 1.
C9_LongestMatch ==
    /\ Len(lst) >= 2 => lst[2].address = start
    /\ \A i \in 2..Len(lst) :
          ~in_datamap(lst[i].address, datamap) =>
             /\ lst[i].address <= DisEnd
             /\ IF Candidates(lst[i].address) # {}
                THEN /\ lst[i].asm.form = "insn"
                     /\ lst[i].opcode =
                            window(images, start, lst[i].address, Largest(Candidates(lst[i].address)))
                ELSE /\ lst[i].asm.form = "invalid"
                     /\ lst[i].opcode = <<mem(images, start, lst[i].address)>>
                     /\ lst[i].asm.b = lst[i].opcode
             /\ NextAddress(i) = lst[i].address + Len(lst[i].opcode)
             /\ Truncated(lst[i].address) =>
                   /\ lst[i].asm.form = "invalid"
                   /\ Len(lst[i].opcode) = 1
                   /\ NextAddress(i) = lst[i].address + 1

\* C9 witness: the disassembly of 18 00 01 00 without data ranges has finished: jr takes
\* the 2-byte window, the ld bc that lacks its last byte leaves 01 as an Invalid Opcode
\* line, and the 00 after it is decoded on its own
C9_Witness ==
    /\ dpc = "done"
    /\ images = <<24, 0, 1, 0>>
    /\ datamap = << >>
    /\ Len(lst) = 4
    /\ lst[2].opcode = <<24, 0>> /\ lst[2].asm.form = "insn"
    /\ lst[3].opcode = <<1>> /\ lst[3].asm.form = "invalid"
    /\ lst[4].opcode = <<0>> /\ lst[4].asm.form = "insn" /\ lst[4].address = start + 3

\* the lines (after the org line) emitted at address a
LinesAt(a) == { i \in 2..Len(lst) : lst[i].address = a }

\* C10: every line at an address a inside a data range is the db line of the single byte
\* at a and the sweep goes on at a + 1; so, once the sweep is over, every address of the
\* image inside a data range has exactly one line of its own.
C10_DataRangeOneLinePerByte ==
    /\ \A i \in 2..Len(lst) :
          in_datamap(lst[i].address, datamap) =>
             /\ lst[i].asm.form = "data"
             /\ lst[i].opcode = <<mem(images, start, lst[i].address)>>
             /\ lst[i].asm.b = lst[i].opcode
             /\ NextAddress(i) = lst[i].address + 1
    /\ (dpc = "done" /\ lst # << >>) =>
          \A a \in start..DisEnd :
              in_datamap(a, datamap) => Cardinality(LinesAt(a)) = 1

\* some line's text references L_hhhh for hhhh = a
Referenced(a) == \E j \in 1..Len(lst) : lst[j].asm.target = a

\* the text the sweep produced for the line at address a
SweptText(a) == sweep_line(images, start, a, decode_at(images, start, datamap, a)).asm

\* C11: once exec is over, a line with an opcode carries a label exactly when some
\* line's text references its address, and the label is the one of its own address; the
\* org line carries none, also when the target is the start address; the label pass
\* leaves every line's text as the sweep wrote it, so a reference to an address that no
\* line starts at labels nothing and stays in the text.  No line is labelled before the
\* label pass.
C11_LabelIffReferenced ==
    /\ dpc = "sweep" => \A i \in 1..Len(lst) : lst[i].label = NoTarget
    /\ dpc = "done" =>
          \A i \in 1..Len(lst) :
              IF lst[i].hasop
              THEN /\ lst[i].label \in {NoTarget, lst[i].address}
                   /\ lst[i].label = lst[i].address <=> Referenced(lst[i].address)
                   /\ lst[i].asm = SweptText(lst[i].address)
              ELSE /\ i = 1
                   /\ lst[i].label = NoTarget
                   /\ lst[i].asm = OrgLine(start).asm

\* C11 witness: 18 FE 18 02 at address 0 has been disassembled: the jr to the start
\* address labels the jr line itself and not the org line, and the jr to address 6,
\* outside the image, labels nothing and keeps its target in the text
C11_Witness ==
    /\ dpc = "done"
    /\ start = 0
    /\ images = <<24, 254, 24, 2>>
    /\ Len(lst) = 3
    /\ lst[1].label = NoTarget
    /\ lst[2].asm.target = 0 /\ lst[2].label = 0
    /\ lst[3].asm.target = 6 /\ lst[3].label = NoTarget

\* the two's-complement value of the byte b
SignExtend(b) == IF b >= 128 THEN b - 256 ELSE b

\* the address of the assemble-list line k
LineAddress(k) == asm[k].base + asm[k].offset

\* the bytes of line k are in the disassembled image as the assembler emitted them
Intact(k) ==
    /\ start <= LineAddress(k)
    /\ \A i \in 1..Len(asm[k].opcode) :
          mem(images, start, LineAddress(k) + i - 1) = asm[k].opcode[i]

\* C12: when the bytes of a successful assembly have been disassembled, every relative
\* jump to a label L that was assembled under an ORG and whose bytes are in the image is
\* rendered, on the line decoded at its address A, with the mnemonic it was written with
\* and the placeholder of L's address T, and that target is sign-extend(b1) + A + 2
\* mod 65536; the disassembly started at A decodes the jump as its first line.
C12_RelRoundTrip ==
    (Succeeded /\ dpc = "done") =>
        \A k \in AsmIdx : \A L \in DOMAIN LabelMap(label2address) :
            (IsRelLabelRef(k, L) /\ asm[k].base >= 0 /\ Intact(k)) =>
                /\ \A i \in 2..Len(lst) :
                      lst[i].address = LineAddress(k) =>
                          /\ lst[i].opcode = asm[k].opcode
                          /\ lst[i].asm.form = "insn"
                          /\ lst[i].asm.tmpl[1] = Lower(asm[k].asm[1])
                          /\ lst[i].asm.target = LabelMap(label2address)[L]
                          /\ lst[i].asm.target =
                                (SignExtend(asm[k].opcode[2]) + LineAddress(k) + 2) % 65536
                /\ start = LineAddress(k) => (Len(lst) >= 2 /\ lst[2].address = start)

\* C12 witness: L1 at 0x100 and jr L1 at 0x17E, the distance -128, have been assembled
\* and the two bytes disassembled at 0x17E: the line of the jr names L_0100
C12_Witness ==
    /\ Succeeded /\ dpc = "done"
    /\ start = 382
    /\ images = <<24, 128>>
    /\ \E k \in AsmIdx : IsRelLabelRef(k, "L1") /\ LineAddress(k) = 382
    /\ LabelMap(label2address)["L1"] = 256
    /\ lst[2].asm.target = 256

\* pass-2 has run: it returned or it raised
Pass2Ended == Succeeded \/ (Failed /\ errpass = "pass2")

\* the distances L - pc of the jr instructions that name a label
JrDeltas ==
    { RelDelta(kl[1], kl[2]) : kl \in { x \in AsmIdx \X DOMAIN LabelMap(label2address) :
                                          /\ IsRelLabelRef(x[1], x[2])
                                          /\ Lower(asm[x[1]].asm[1]) = "jr" } }

\* the distances of all relative jumps that name a label
RelDeltas ==
    { RelDelta(kl[1], kl[2]) : kl \in { x \in AsmIdx \X DOMAIN LabelMap(label2address) :
                                          IsRelLabelRef(x[1], x[2]) } }

\* C13 as stated: in a source whose only operands are the labels of relative jumps, with
\* pc = address of the jr + 2, pass-2 succeeds when every distance L - pc is in
\* [-128, 127] or exactly +128, and fails when some distance is outside [-128, 127].
C13_Original ==
    Pass2Ended =>
        /\ (\A d \in RelDeltas : (-128 <= d /\ d <= 127) \/ d = 128) => Succeeded
        /\ (\E d \in RelDeltas : d < -128 \/ d > 127) => Failed

\* C13 amended: in a source whose only operands are the labels of relative jumps, with
\* pc = address of the jr + 2, pass-2 succeeds exactly when every distance L - pc is in
\* [-128, 127]: the distance -128 is encoded (as 0x80), the distance +128 is rejected
\* with the relative-jump-out-of-range error like every distance outside [-128, 127].
C13_JrRange ==
    Pass2Ended =>
        /\ Succeeded <=> \A d \in RelDeltas : -128 <= d /\ d <= 127
        /\ Failed => err = "RelativeJumpOutOfRange"
        /\ Succeeded =>
              \A k \in AsmIdx : \A L \in DOMAIN LabelMap(label2address) :
                  (IsRelLabelRef(k, L) /\ RelDelta(k, L) = -128) => asm[k].opcode[2] = 128

\* C13 witness: pass-2 has rejected a source whose one relative jump is a jr at the
\* distance +128
C13_Witness ==
    /\ Failed /\ errpass = "pass2"
    /\ JrDeltas = {128}
    /\ RelDeltas = {128}

\* the run is over
Ended == Succeeded \/ Failed

IsDbToks(toks) == Len(toks) >= 1 /\ Lower(toks[1]) \in {"db", "defb"}
IsDwToks(toks) == Len(toks) >= 1 /\ Lower(toks[1]) \in {"dw", "defw"}

\* the values of the numeric operands of a DB line, in order
DbValues(toks) ==
    [i \in 1..NumOperands(toks) |-> IntOf(OperandTokens(toks, i)[1])]

\* the source has a DB line with a numeric operand outside [0, 255]
DbRejected ==
    \E n \in 1..Len(src) :
        /\ IsDbToks(src[n].asm)
        /\ \E i \in 1..NumOperands(src[n].asm) :
              DbValues(src[n].asm)[i] < 0 \/ DbValues(src[n].asm)[i] > 255

\* the source has a DW line with a literal operand outside [0, 65535]
DwLiteralRejected ==
    \E n \in 1..Len(src) :
        /\ IsDwToks(src[n].asm)
        /\ \E i \in 1..NumOperands(src[n].asm) :
              /\ Len(OperandTokens(src[n].asm, i)) = 1
              /\ IsInt(OperandTokens(src[n].asm, i)[1])
              /\ IntOf(OperandTokens(src[n].asm, i)[1]) > 65535

\* every identifier of the operand has a recorded address
OperandDefined(op) ==
    \A j \in 1..Len(op) : IsIdent(op[j]) => op[j] \in DOMAIN LabelMap(label2address)

\* the assemble list has a DW line with an operand of defined labels whose value under
\* the final label addresses is outside [0, 65535]
DwValueRejected ==
    \E k \in AsmIdx :
        /\ IsDwLine(k)
        /\ \E i \in 1..NumOperands(asm[k].asm) :
              /\ OperandDefined(OperandTokens(asm[k].asm, i))
              /\ \/ OperandValue(OperandTokens(asm[k].asm, i)) < 0
                 \/ OperandValue(OperandTokens(asm[k].asm, i)) > 65535

\* C14: a finished assembly has, for every DB/DEFB line, numeric operands in [0, 255]
\* and exactly their values as bytes, and for every DW/DEFW line, operand values (of
\* literals and of expressions resolved in pass-2) in [0, 65535] stored little-endian; a
\* source with a DB literal outside [0, 255] or a DW operand outside [0, 65535] ends in
\* failure; an assembly fails with the DB or DW range error only for such an operand, and
\* a source of DB, DW and label lines fails otherwise only for a duplicate or undefined
\* label.
C14_DbDwRange ==
    /\ Succeeded =>
          /\ ~DbRejected /\ ~DwLiteralRejected /\ ~DwValueRejected
          /\ \A k \in AsmIdx :
                (IsAsmLine(k) /\ IsDbToks(asm[k].asm)) => asm[k].opcode = DbValues(asm[k].asm)
          /\ \A k \in AsmIdx : IsDwLine(k) =>
                \A i \in 1..NumOperands(asm[k].asm) :
                    /\ asm[k].opcode[2 * i - 1] = OperandValue(OperandTokens(asm[k].asm, i)) % 256
                    /\ asm[k].opcode[2 * i] = OperandValue(OperandTokens(asm[k].asm, i)) \div 256
    /\ (Ended /\ (DbRejected \/ DwLiteralRejected)) => Failed
    /\ (Pass2Ended /\ DwValueRejected) => Failed
    /\ (Failed /\ err = "DbOutOfRange") => DbRejected
    /\ (Failed /\ err = "DwOutOfRange" /\ errpass = "pass1") => DwLiteralRejected
    /\ (Failed /\ err = "DwOutOfRange" /\ errpass = "pass2") => DwValueRejected
    /\ Failed => err \in {"DbOutOfRange", "DwOutOfRange", "DuplicateLabel", "UndefinedLabel"}

\* C14 witness: a finished assembly with the byte 255 from a DB line, the literal word
\* 65535 and an expression that pass-2 resolved to 65535
C14_Witness ==
    /\ Succeeded
    /\ \E k \in AsmIdx : IsAsmLine(k) /\ IsDbToks(asm[k].asm) /\ asm[k].opcode = <<255>>
    /\ \E k \in AsmIdx : IsDwLine(k) /\ asm[k].asm = <<"dw", "65535">> /\ asm[k].opcode = <<255, 255>>
    /\ \E k \in AsmIdx :
          /\ IsDwLine(k) /\ asm[k].asm = <<"dw", "L1", "+", "65535">>
          /\ LabelMap(label2address)["L1"] = 0
          /\ asm[k].opcode = <<255, 255>>

\* the operand is a string literal, or a numeric expression the evaluator accepts with a
\* value in [0, 255]
DbOperandOk(op) ==
    \/ Len(op) = 1 /\ IsStr(op[1])
    \/ /\ ~(Len(op) = 1 /\ IsStr(op[1]))
       /\ evaluate(op, FinalEnv).ok
       /\ 0 <= evaluate(op, FinalEnv).val /\ evaluate(op, FinalEnv).val <= 255

\* the byte form of an operand: the characters of a string, the value of an expression
DbOperandBytes(op) ==
    IF Len(op) = 1 /\ IsStr(op[1]) THEN OrdsOf(op[1]) ELSE <<evaluate(op, FinalEnv).val>>

\* the concatenation of the byte forms of the operands i.. of a DB line
RECURSIVE DbBytesFrom(_, _)
DbBytesFrom(toks, i) ==
    IF i > NumOperands(toks) THEN << >>
    ELSE DbOperandBytes(OperandTokens(toks, i)) \o DbBytesFrom(toks, i + 1)

\* the source consists of DB lines whose operands are all acceptable
AllDbOperandsOk ==
    \A n \in 1..Len(src) :
        /\ IsDbToks(src[n].asm)
        /\ \A i \in 1..NumOperands(src[n].asm) : DbOperandOk(OperandTokens(src[n].asm, i))

\* C15: a source of DB/DEFB lines whose operands are string literals or numeric
\* expressions (literals with + - * /, unary sign, parentheses) with values in [0, 255]
\* assembles, and every line's bytes are the concatenation of its operands' byte forms:
\* one byte with the value of an expression, one byte per character of a string.
C15_DbExpressionOperands ==
    (Ended /\ AllDbOperandsOk) =>
        /\ Succeeded
        /\ \A k \in AsmIdx : asm[k].opcode = DbBytesFrom(asm[k].asm, 1)

\* source line n is  name : EQU v  with an integer literal v
IsEquLiteral(n) == IsEquSrc(n) /\ IsInt(src[n].asm[4])

\* source line n is  name : EQU - v  with an integer literal v other than 0
IsEquNegative(n) ==
    /\ Len(src[n].asm) = 5
    /\ src[n].asm[2] = ":" /\ Lower(src[n].asm[3]) = "equ"
    /\ src[n].asm[4] = "-" /\ IsInt(src[n].asm[5]) /\ IntOf(src[n].asm[5]) > 0

\* the EQU definitions of the source with a value outside [0, 65535)
EquOutOfRange ==
    { n \in 1..Len(src) :
        \/ IsEquLiteral(n) /\ (IntOf(src[n].asm[4]) >= 65535 \/ IntOf(src[n].asm[4]) < 0)
        \/ IsEquNegative(n) }

\* the symbol table binds name to the value token v as an EQU
EquBound(name, v) ==
    \E m \in 1..Len(labelmap) :
        labelmap[m].type = "equ" /\ labelmap[m].symbol = name /\ labelmap[m].value = v

\* C16: a source with an EQU definition whose literal value is 65535 or more, or
\* negative, ends in failure; once pass-0 has accepted the source every EQU definition
\* has a value v with 0 <= v < 65535 and its name is bound to v in the symbol table;
\* and pass-0 rejects a source of EQU definitions with valid, distinct names only for a
\* value outside that range.
C16_EquRange ==
    /\ (Ended /\ EquOutOfRange # {}) => Failed
    /\ (pc \notin {"src", "error"} \/ (Failed /\ errpass # "pass0")) =>
          \A n \in 1..Len(src) : IsEquLiteral(n) =>
              /\ 0 <= IntOf(src[n].asm[4]) /\ IntOf(src[n].asm[4]) < 65535
              /\ EquBound(src[n].asm[1], src[n].asm[4])
    /\ (Failed /\ errpass = "pass0") =>
          /\ err \in {"InvalidEquValue", "DuplicateLabel"}
          /\ err = "InvalidEquValue" => \E n \in EquOutOfRange : IsEquLiteral(n)
          /\ err = "DuplicateLabel" => Redefinitions # {}

\* C16 witness: a finished assembly whose source binds VAL to 65534 and uses it
C16_Witness ==
    /\ Succeeded
    /\ \E n \in 1..Len(src) : src[n].asm = <<"VAL", ":", "equ", "65534">>
    /\ EquBound("VAL", "65534")
    /\ \E k \in AsmIdx : IsDwLine(k) /\ asm[k].opcode = <<254, 255>>

\* the integer quotient truncated toward zero, for b # 0
Abs(x) == IF x < 0 THEN -x ELSE x
TruncDiv(a, b) ==
    IF (a < 0) = (b < 0) THEN Abs(a) \div Abs(b) ELSE -(Abs(a) \div Abs(b))

\* the value of the literal tok under the sign token sign
Signed(sign, tok) == IF sign = "-" THEN -IntOf(tok) ELSE IntOf(tok)

\* the dividend and the divisor of a line  dw 10 + <sign> a / <sign> b
Dividend(toks) == Signed(toks[4], toks[5])
Divisor(toks) == Signed(toks[7], toks[8])

\* the source has a line that divides by zero
DividesByZero == \E n \in 1..Len(src) : Divisor(src[n].asm) = 0

\* C17: a source of lines  dw 10 + a / b  with signed literals a and b assembles when no
\* b is 0, and each line then holds 10 plus the quotient of a by b truncated toward
\* zero, for every combination of signs; with some b = 0 it fails with the
\* division-by-zero error.
C17_DivisionTruncates ==
    /\ (Ended /\ DividesByZero) => (Failed /\ err = "DivisionByZero")
    /\ (Ended /\ ~DividesByZero) => Succeeded
    /\ Succeeded =>
          \A k \in AsmIdx :
              /\ asm[k].opcode[1] = 10 + TruncDiv(Dividend(asm[k].asm), Divisor(asm[k].asm))
              /\ asm[k].opcode[2] = 0

\* C18: after a successful assembly every line that carries an opcode ends inside the
\* 64 KiB address space: base + offset + len(opcode) <= 0x10000.
C18_WithinAddressSpace ==
    Succeeded =>
        \A k \in AsmIdx :
            (IsAsmLine(k) /\ asm[k].hasop) =>
                asm[k].base + asm[k].offset + Len(asm[k].opcode) <= 65536

\* line k is bit, res or set on (ix+d) or (iy+d) and has been encoded
IsIndexedBitOp(k) ==
    /\ IsAsmLine(k) /\ asm[k].hasop
    /\ Lower(asm[k].asm[1]) \in {"bit", "res", "set"}
    /\ Len(asm[k].asm) >= 8
    /\ Lower(asm[k].asm[5]) \in {"ix", "iy"}

\* the position of the closing parenthesis of (ix+d) and the tokens of d
DispEnd(toks) == CHOOSE j \in 7..Len(toks) : toks[j] = ")" /\ \A m \in 7..(j - 1) : toks[m] # ")"
DispTokens(toks) == SubSeq(toks, 7, DispEnd(toks) - 1)

\* the value of a displacement  t,  - t,  t + t  or  t - t  under the recorded addresses
DispValue(op) ==
    IF op[1] = "-" THEN -TermValue(op[2]) ELSE OperandValue(op)

\* the displacement names a label
DispHasLabel(op) == \E j \in 1..Len(op) : IsIdent(op[j])

\* the sub-opcode of the Z80 for the mnemonic, the bit index and the trailing register
\* (none: the (hl) column)
ExtBase(m) == IF m = "bit" THEN 64 ELSE IF m = "res" THEN 128 ELSE 192
ExtColumn(toks) == IF DispEnd(toks) = Len(toks) THEN 6 ELSE 0
ExtOf(toks) == ExtBase(Lower(toks[1])) + 8 * IntOf(toks[2]) + ExtColumn(toks)

\* C19: from pass-1 on, a bit/res/set on (ix+d) or (iy+d), with or without a trailing
\* register, is the four bytes prefix, 0xCB, displacement byte, sub-opcode, the
\* sub-opcode being the one of its mnemonic, bit index and register; it has exactly one
\* fixup, a byte fixup at offset 2 whose source is the displacement and not the bit
\* index; the displacement byte is d mod 256 after pass-1 for a displacement of literals
\* and after pass-2 for every displacement, and pass-2 changes no other byte.
C19_IndexedBitOps ==
    \A k \in AsmIdx : IsIndexedBitOp(k) =>
        /\ Len(asm[k].opcode) = 4
        /\ asm[k].opcode[1] = (IF Lower(asm[k].asm[5]) = "ix" THEN 221 ELSE 253)
        /\ asm[k].opcode[2] = 203
        /\ asm[k].opcode[4] = ExtOf(asm[k].asm)
        /\ Len(asm[k].fixups) = 1
        /\ asm[k].fixups[1].offset = 2
        /\ asm[k].fixups[1].size = 1
        /\ asm[k].fixups[1].type = "byte"
        /\ asm[k].fixups[1].src.location = 7
        /\ asm[k].fixups[1].src.length = Len(DispTokens(asm[k].asm))
        /\ (pc = "pass1" /\ ~DispHasLabel(DispTokens(asm[k].asm))) =>
               asm[k].opcode[3] = DispValue(DispTokens(asm[k].asm)) % 256
        /\ Succeeded => asm[k].opcode[3] = DispValue(DispTokens(asm[k].asm)) % 256

\* C19 witness: a finished assembly in which  set 0, (iy+L1), b  got the non-zero
\* address of L1 patched into byte 2 and kept its sub-opcode 0xC0 in byte 3
C19_Witness ==
    /\ Succeeded
    /\ \E k \in AsmIdx :
          /\ IsIndexedBitOp(k)
          /\ asm[k].asm = <<"set", "0", ",", "(", "iy", "+", "L1", ")", ",", "b">>
          /\ LabelMap(label2address)["L1"] > 0
          /\ asm[k].opcode = <<253, 203, LabelMap(label2address)["L1"], 192>>

\* the tokens are  ld ( ix + d ) , n
IsLdIndexedImm(toks) ==
    /\ Len(toks) >= 8
    /\ Lower(toks[1]) = "ld" /\ toks[2] = "(" /\ Lower(toks[3]) = "ix" /\ toks[4] = "+"

\* the position of the closing parenthesis, the tokens of d and the tokens of n
LdDispEnd(toks) == CHOOSE j \in 5..Len(toks) : toks[j] = ")" /\ \A m \in 5..(j - 1) : toks[m] # ")"
LdDispTokens(toks) == SubSeq(toks, 5, LdDispEnd(toks) - 1)
LdImmTokens(toks) == SubSeq(toks, LdDispEnd(toks) + 2, Len(toks))

\* every identifier used by a source line is defined by some source line
AllUsesDefined ==
    \A n \in 1..Len(src) : \A j \in 1..Len(src[n].asm) :
        (~IsDefSrc(n) /\ IsIdent(src[n].asm[j])) => DefLines(src[n].asm[j]) # {}

\* C20: a source of  ld (ix+d), n  lines whose operands d and n are expressions with
\* values in [-128, 255], of one token or of several (a negative literal, LABEL + 1),
\* with every label defined once, assembles, and every such line is the code bytes
\* DD 36 followed by d mod 256 and n mod 256.
C20_TwoByteOperands ==
    /\ (Ended /\ Redefinitions = {} /\ AllUsesDefined) => Succeeded
    /\ Succeeded =>
          \A k \in AsmIdx : (IsAsmLine(k) /\ IsLdIndexedImm(asm[k].asm)) =>
              asm[k].opcode = <<221, 54, DispValue(LdDispTokens(asm[k].asm)) % 256,
                                DispValue(LdImmTokens(asm[k].asm)) % 256>>

(***************************************************************************)
(* C21: pass-1 layout is stable                                            *)
(***************************************************************************)
\* the layout of the assemble list: base, offset and opcode length of every line
Layout(lines) ==
    [k \in 1..Len(lines) |->
        <<lines[k].base, lines[k].offset, Len(lines[k].opcode)>>]

\* C21: a second pass1 on the assemble list that pass2 has finished ends without an
\* error and leaves the base and the offset of every line and the length of every
\* opcode as they were.
C21_Pass1Stable == [][Pass1Again => (pc' = "again" /\ Layout(asm') = Layout(asm))]_vars

\* a second pass1 has run on a list with a label line and a line that uses the label,
\* both at an offset beyond 0 under an ORG
C21_Witness ==
    /\ pc = "again"
    /\ \E k \in AsmIdx : IsLabelLine(k) /\ asm[k].offset > 0 /\ asm[k].base = 256
    /\ \E k \in AsmIdx :
          /\ IsAsmLine(k) /\ asm[k].offset > 0
          /\ \E i \in 1..Len(asm[k].asm) : asm[k].asm[i] = "L1"

(***************************************************************************)
(* C22: an Asm instance can be reused                                      *)
(***************************************************************************)
\* the run on src is a run of an instance that has processed a source before
Reused == prior # ""

\* the symbols in the tables of the instance
TableSymbols ==
    {labelmap[m].symbol : m \in 1..Len(labelmap)}
        \cup {label2address[m].label : m \in 1..Len(label2address)}

\* the run ended as the run of a fresh instance on the same source ends
EndsAsFresh(fresh) ==
    /\ err = fresh.err
    /\ errpass = fresh.errpass
    /\ Succeeded => asm = fresh.lines

\* C22: a run of assemble_lines on an instance that has processed a source before -
\* assembled, or failed in pass-0, pass-1 or pass-2 - ends with the lines (tokens, base,
\* offset, bytes) or the error of a fresh instance on the same source, and at no point
\* of the run do the tables of the instance hold a symbol the source does not define.
C22_InstanceReusable ==
    Reused =>
        /\ TableSymbols \subseteq DefinedNames
        /\ (Succeeded \/ Failed) => EndsAsFresh(AssembleLines(src))

\* a source that uses L1 without defining it is rejected with an undefined symbol, on an
\* instance whose previous run defined L1 and failed in pass-2 (in PoolReuse only a
\* defined L1 at 0x100 or above in a byte slot fails there)
C22_Witness ==
    /\ prior = "pass2"
    /\ Failed /\ errpass = "pass1" /\ err = "UndefinedSymbol"
    /\ "L1" \notin DefinedNames
    /\ \E n \in 1..Len(src) : src[n].asm = <<"ld", "a", ",", "L1">>

(***************************************************************************)
(* C23: reserved words are rejected as names                               *)
(***************************************************************************)
\* C23: when the source defines a label or an EQU whose name in lower case is a reserved
\* word, pass-0 fails, with the reserved-word error unless it rejected an earlier line
\* as a duplicate definition (the one other pass-0 error of PoolReserved); and at no
\* point does labelmap or label2address hold a name that is reserved in lower case.
C23_ReservedRejected ==
    /\ (ReservedDefs # {} /\ pc # "src") =>
          /\ Failed /\ errpass = "pass0"
          /\ (\A d \in Redefinitions : \E n \in ReservedDefs : n < d) => err = "ReservedWord"
    /\ \A m \in 1..Len(labelmap) : Lower(labelmap[m].symbol) \notin reserved
    /\ \A m \in 1..Len(label2address) : Lower(label2address[m].label) \notin reserved

\* pass-0 has rejected with the reserved-word error a source whose second line defines
\* a reserved word written in upper case, after a line that defines L1
C23_Witness ==
    /\ Failed /\ errpass = "pass0" /\ err = "ReservedWord"
    /\ Len(src) = 2
    /\ src[1].asm[1] = "L1"
    /\ src[2].asm \in { <<"A", ":">>, <<"NOP", ":", "equ", "5">>, <<"JP", ":", "nop">> }
    /\ Len(labelmap) = 1

(***************************************************************************)
(* C24: the output file under -s                                           *)
(***************************************************************************)
\* the file offsets covered by an emitted region
CoveredOffsets ==
    UNION { { write_address(asm[k]) + i - 1 : i \in 1..Len(asm[k].opcode) } : k \in AsmIdx }

\* C24: when command_asm has written the file with -s N, the file has length N, every
\* emitted byte with address A is at file offset A, and every file byte outside the
\* emitted regions is 0.
C24_SizedOutput ==
    (binfile.written /\ binfile.size # NoSize) =>
        /\ Len(binfile.data) = binfile.size
        /\ \A k \in AsmIdx : \A i \in 1..Len(asm[k].opcode) :
              /\ write_address(asm[k]) + i <= Len(binfile.data)
              /\ binfile.data[write_address(asm[k]) + i] = asm[k].opcode[i]
        /\ \A o \in 1..Len(binfile.data) : (o - 1) \notin CoveredOffsets => binfile.data[o] = 0

(***************************************************************************)
(* C25: pass-2 only patches fixup bytes                                    *)
(***************************************************************************)
\* the byte offsets (0-based) of the opcode that fixup fx covers
FixupBytes(fx) == fx.offset..(fx.offset + fx.size - 1)

\* the byte offsets of line p covered by one of its fixups
PatchedBytes(p) == UNION { FixupBytes(p.fixups[f]) : f \in 1..Len(p.fixups) }

\* the fixups of line p lie inside its opcode and do not overlap
FixupsFit(p) ==
    /\ \A f \in 1..Len(p.fixups) :
          p.fixups[f].offset >= 0 /\ p.fixups[f].offset + p.fixups[f].size <= Len(p.opcode)
    /\ \A f, g \in 1..Len(p.fixups) :
          f # g => FixupBytes(p.fixups[f]) \cap FixupBytes(p.fixups[g]) = {}

\* the slot of fixup f of line k holds the operand's value under the recorded addresses:
\* the distance from the end of the line for a relative fixup, the value itself otherwise
FixupWritten(k, f) ==
    IF asm[k].fixups[f].type = "rel"
    THEN asm[k].opcode[asm[k].fixups[f].offset + 1] =
            (FinalValue(k, f) - (asm[k].base + asm[k].offset + Len(asm[k].opcode))) % 256
    ELSE SlotHolds(k, f, FinalValue(k, f))

AllFixupsWritten ==
    \A k \in AsmIdx : IsInstruction(k) => \A f \in 1..Len(asm[k].fixups) : FixupWritten(k, f)

\* C25: pass-2 leaves the number of lines and, of every line, base, offset, tokens,
\* fixups and the length of the opcode as pass-1 set them; on every instruction line the
\* fixups lie inside the opcode without overlapping and every byte outside them (the
\* code bytes of the table entry, the ext byte of the DD CB and FD CB forms) is
\* unchanged; and when pass-2 succeeds every fixup's slot holds its operand's value.
C25_Pass2OnlyPatches ==
    [][Pass2 =>
        /\ Len(asm') = Len(asm)
        /\ \A k \in AsmIdx :
              /\ asm'[k].base = asm[k].base
              /\ asm'[k].offset = asm[k].offset
              /\ asm'[k].asm = asm[k].asm
              /\ asm'[k].fixups = asm[k].fixups
              /\ Len(asm'[k].opcode) = Len(asm[k].opcode)
              /\ IsInstruction(k) =>
                    /\ FixupsFit(asm[k])
                    /\ \A i \in 1..Len(asm[k].opcode) :
                          (i - 1) \notin PatchedBytes(asm[k]) => asm'[k].opcode[i] = asm[k].opcode[i]
        /\ pc' = "done" => AllFixupsWritten'
    ]_vars

\* pass-2 has finished a list with a DD CB instruction whose displacement, and an
\* instruction whose two byte operands, name a label at an address other than 0
C25_Witness ==
    /\ Succeeded
    /\ \E k \in AsmIdx :
          /\ IsInstruction(k) /\ Len(asm[k].fixups) = 2
          /\ asm[k].opcode[3] # 0 /\ asm[k].opcode[4] # 0
    /\ \E k \in AsmIdx :
          /\ IsInstruction(k) /\ Len(asm[k].opcode) = 4 /\ Len(asm[k].fixups) = 1
          /\ asm[k].fixups[1].offset = 2 /\ asm[k].opcode[3] # 0

(***************************************************************************)
(* C26: the sweep tiles its input                                          *)
(***************************************************************************)
\* the opcode vectors of the lines from..Len(lst), one after the other
RECURSIVE OpcodesFrom(_)
OpcodesFrom(i) == IF i > Len(lst) THEN << >> ELSE lst[i].opcode \o OpcodesFrom(i + 1)

\* the lines decoded so far cover the bytes from start up to adr, each line beginning
\* where the line before it ends and holding the bytes of the image at its addresses
Tiled ==
    /\ lst[1].address = start /\ lst[1].asm.form = "org" /\ lst[1].asm.b = <<start>>
    /\ ~lst[1].hasop
    /\ Len(lst) >= 2 => lst[2].address = start
    /\ \A i \in 2..Len(lst) :
          /\ Len(lst[i].opcode) >= 1
          /\ NextAddress(i) = lst[i].address + Len(lst[i].opcode)
          /\ lst[i].address + Len(lst[i].opcode) - 1 <= DisEnd
    /\ adr <= DisEnd + 1
    /\ OpcodesFrom(2) = SubSeq(images, 1, adr - start)

\* C26: for an image with start + size <= 0xFFFF and any data ranges, exec does not
\* return the empty list; its list is the org line followed by lines of which the first
\* is at start, each next one at the address where the one before ends, none with a byte
\* at or beyond start + size; when exec is done the lines end at start + size - 1 and
\* their opcode vectors, one after the other, are the input bytes; and the sweep
\* terminates: every iteration moves adr forward, by at most the bytes that are left, and
\* exec is done right after the iteration that uses up the image.
C26_SweepTiles ==
    /\ [](dpc \in {"sweep", "done"} /\ start + Len(images) <= 65535 =>
            /\ lst # << >>
            /\ Tiled
            /\ dpc = "done" => adr = DisEnd + 1 /\ OpcodesFrom(2) = images)
    /\ [][/\ dpc = "sweep" => (adr < adr' /\ dpc' = "sweep") \/ (adr = DisEnd + 1 /\ dpc' = "done")
          /\ dpc = "call" /\ start + Len(images) <= 65535 => dpc' = "sweep"]_vars

\* exec is done with an image that starts inside a data range, goes on with a DD CB
\* instruction and ends at 0xFFFF - 1 with the first byte of a jr
C26_Witness ==
    /\ dpc = "done"
    /\ start = 65531
    /\ Len(images) = 4
    /\ datamap # << >>
    /\ Len(lst) >= 3
    /\ lst[Len(lst)].opcode = <<24>> /\ lst[Len(lst)].address = 65534

(***************************************************************************)
(* C27: images that reach the top of the address space                     *)
(***************************************************************************)
\* C27: for every start in [0, 0xFFFF] and image with start + size <= 0x10000, the list
\* exec returns is not empty, begins with the org line of start, and its opcode vectors,
\* one after the other, are the input bytes.
C27_WholeAddressSpace ==
    (dpc = "done" /\ 0 <= start /\ start <= 65535 /\ start + Len(images) <= 65536) =>
        /\ lst # << >>
        /\ lst[1].address = start /\ lst[1].asm.form = "org"
        /\ OpcodesFrom(2) = images

(***************************************************************************)
(* C28: the pass-1 placeholder                                             *)
(***************************************************************************)
\* line k encodes when its operands are evaluated with the recorded addresses
EncodesWithAddresses(k) ==
    /\ asm2op(asm[k].asm, FinalEnv).err = ""
    /\ asm2op(asm[k].asm, FinalEnv).op # << >>

\* C28: pass-1 does not fail on an instruction that names labels when all of them are
\* placed already and the instruction encodes with their addresses (every operand
\* well-defined and within the range of its slot): the 0 that stands for a label in
\* pass-1 is never the cause of an error.
C28_PlaceholderHarmless ==
    (Failed /\ errpass = "pass1" /\ IsInstruction(Pass1FailedLine)
        /\ Idents(Pass1FailedLine) # {} /\ AllIdentsResolved(Pass1FailedLine))
      => ~EncodesWithAddresses(Pass1FailedLine)

(***************************************************************************)
(* C29: a source without ORG                                               *)
(***************************************************************************)
\* the source has no ORG line
NoOrg == \A n \in 1..Len(src) : ~IsOrgSrc(n)

\* the source with the line `org 0x0000` put before it
WithOrgZero == Source(<<<<"org", "0x0000">>>> \o [n \in 1..Len(src) |-> src[n].asm])

\* the run ended as the run on the other source ends: the same error, or the same bytes
\* on every line
SameOutcome(other) ==
    /\ err = other.err
    /\ Succeeded => [k \in AsmIdx |-> asm[k].opcode] = other.opcodes

\* C29: a source without ORG assembles as the same source with `org 0x0000` before it:
\* the same outcome and, line by line, the same bytes; and a label defined before the
\* first ORG of a source has the address given by the layout from 0, the number of bytes
\* emitted before it, which lies in [0, 0xFFFF].
C29_NoOrgIsOrgZero ==
    /\ (Ended /\ NoOrg) => SameOutcome(AssembleLines(WithOrgZero))
    /\ pc \in {"pass1", "done"} =>
          \A m \in 1..Len(label2address) :
              OrgInForce(asm[DefIdx(label2address[m].label)].line) = NoBase =>
                  /\ label2address[m].address = Emitted(1, DefIdx(label2address[m].label))
                  /\ label2address[m].address \in 0..65535

(***************************************************************************)
(* C30: opcode vectors hold bytes                                          *)
(***************************************************************************)
\* C30: after a successful assembly every element of every line's opcode vector is an
\* integer in 0..255.
C30_OpcodesAreBytes ==
    Succeeded => \A k \in AsmIdx : \A i \in 1..Len(asm[k].opcode) : asm[k].opcode[i] \in 0..255
====
